---- MODULE Spec2Model ----
(***************************************************************************)
(* A model of gb-airspace (src/airspace.go): the coordinate and unit       *)
(* decoders, the arc rasteriser, the feature/volume normaliser and the     *)
(* containment query.                                                      *)
(*                                                                         *)
(* Representation.                                                         *)
(*  - A Go string that is parsed or rewritten is a sequence of             *)
(*    one-character strings; one that is only compared (a type, a class,   *)
(*    an arc direction) is a TLA+ string.                                  *)
(*  - An orb.Point is <<lon, lat>>, each in arc-seconds (degrees * 3600),  *)
(*    so that deg + min/60 + sec/3600 is deg*3600 + min*60 + sec.          *)
(*  - A float64 produced by strconv.ParseFloat is held in tenths (the      *)
(*    value * 10); heights are tenths of a foot, distances tenths of a     *)
(*    metre.                                                               *)
(***************************************************************************)
EXTENDS Integers, Sequences, FiniteSets, TLC

VARIABLES
    call,       \* the decoder call under way: its function and arguments
    ret,        \* what that call returned
    doc,        \* the document the server loads
    pc,         \* where the server's main is: start, serving or panicked
    decoded,    \* what Load returned: the features and the error
    features,   \* the server's dataset: feature ID -> Feature
    query,      \* the point of the last containment query answered
    result,     \* the last response: what EnclosingVolumes returned for it
    inflight    \* the requests being handled: for each, how far it has got

vars == <<call, ret, doc, pc, decoded, features, query, result, inflight>>

----------------------------------------------------------------------------
(* Strings                                                                 *)

Digits == <<"0", "1", "2", "3", "4", "5", "6", "7", "8", "9">>

IsDigit(c) == \E d \in 1..10 : Digits[d] = c

DigitVal(c) == (CHOOSE d \in 1..10 : Digits[d] = c) - 1

DigitChar(n) == Digits[n + 1]

IsSpace(c) == c \in {" ", "\t"}

Uppers ==
    << "A", "B", "C", "D", "E", "F", "G", "H", "I", "J", "K", "L", "M",
       "N", "O", "P", "Q", "R", "S", "T", "U", "V", "W", "X", "Y", "Z" >>

Lowers ==
    << "a", "b", "c", "d", "e", "f", "g", "h", "i", "j", "k", "l", "m",
       "n", "o", "p", "q", "r", "s", "t", "u", "v", "w", "x", "y", "z" >>

ToUpperChar(c) ==
    IF \E i \in 1..26 : Lowers[i] = c
    THEN Uppers[CHOOSE i \in 1..26 : Lowers[i] = c]
    ELSE c

ToLowerChar(c) ==
    IF \E i \in 1..26 : Uppers[i] = c
    THEN Lowers[CHOOSE i \in 1..26 : Uppers[i] = c]
    ELSE c

ToUpper(s) == [i \in 1..Len(s) |-> ToUpperChar(s[i])]

ToLower(s) == [i \in 1..Len(s) |-> ToLowerChar(s[i])]

RECURSIVE TrimLeft(_)
TrimLeft(s) ==
    IF s # <<>> /\ IsSpace(Head(s)) THEN TrimLeft(Tail(s)) ELSE s

RECURSIVE TrimRight(_)
TrimRight(s) ==
    IF s # <<>> /\ IsSpace(s[Len(s)])
    THEN TrimRight(SubSeq(s, 1, Len(s) - 1))
    ELSE s

TrimSpace(s) == TrimRight(TrimLeft(s))

HasPrefix(s, p) == Len(s) >= Len(p) /\ SubSeq(s, 1, Len(p)) = p

HasSuffix(s, p) ==
    Len(s) >= Len(p) /\ SubSeq(s, Len(s) - Len(p) + 1, Len(s)) = p

TrimSuffix(s, p) ==
    IF HasSuffix(s, p) THEN SubSeq(s, 1, Len(s) - Len(p)) ELSE s

RECURSIVE ReplaceAll(_, _, _)
ReplaceAll(s, old, new) ==
    IF s = <<>> THEN <<>>
    ELSE <<(IF Head(s) = old THEN new ELSE Head(s))>>
             \o ReplaceAll(Tail(s), old, new)

RECURSIVE DigitsValue(_)
DigitsValue(s) ==
    IF s = <<>> THEN 0
    ELSE DigitsValue(SubSeq(s, 1, Len(s) - 1)) * 10 + DigitVal(s[Len(s)])

\* strconv.FormatInt(n, 10) for n >= 0.
RECURSIVE FormatInt(_)
FormatInt(n) ==
    IF n < 10 THEN <<DigitChar(n)>>
    ELSE FormatInt(n \div 10) \o <<DigitChar(n % 10)>>

AllDigits(s) == \A i \in 1..Len(s) : IsDigit(s[i])

\* A signed parse (strconv.ParseInt) in place of ParseUint.
ParseUint_signed(s) ==
    IF s # <<>> /\ AllDigits(s)
    THEN [err |-> FALSE, val |-> DigitsValue(s)]
    ELSE IF Len(s) >= 2 /\ Head(s) \in {"+", "-"} /\ AllDigits(Tail(s))
    THEN [err |-> FALSE,
          val |-> IF Head(s) = "-" THEN -DigitsValue(Tail(s))
                                   ELSE DigitsValue(Tail(s))]
    ELSE [err |-> TRUE, val |-> 0]

\* strconv.ParseUint(s, 10, 64): no sign, no blank, at least one digit.
ParseUint(s) ==
    IF s # <<>> /\ AllDigits(s)
    THEN [err |-> FALSE, val |-> DigitsValue(s)]
    ELSE [err |-> TRUE, val |-> 0]

\* strconv.ParseFloat(s, 64) on decimal literals: an optional sign, digits
\* with at most one point, at least one digit.  The value is returned in
\* tenths; a syntax error returns 0 with err.
ParseFloat(s) ==
    LET signed == s # <<>> /\ Head(s) \in {"+", "-"}
        neg    == s # <<>> /\ Head(s) = "-"
        body   == IF signed THEN Tail(s) ELSE s
        dots   == {i \in 1..Len(body) : body[i] = "."}
        dot    == IF dots = {} THEN Len(body) + 1 ELSE CHOOSE i \in dots : TRUE
        int    == SubSeq(body, 1, dot - 1)
        frac   == SubSeq(body, dot + 1, Len(body))
        ok     == /\ Cardinality(dots) <= 1
                  /\ AllDigits(int) /\ AllDigits(frac)
                  /\ Len(int) + Len(frac) >= 1
        mag    == DigitsValue(int) * 10
                    + (IF frac = <<>> THEN 0 ELSE DigitVal(frac[1]))
    IN  IF ok
        THEN [err |-> FALSE, val |-> IF neg THEN -mag ELSE mag]
        ELSE [err |-> TRUE, val |-> 0]

----------------------------------------------------------------------------
(* Coordinate and unit decoders                                            *)

ZeroPoint == <<0, 0>>

Lon(p) == p[1]
Lat(p) == p[2]

\* The historical slip: seconds divided by 2600 instead of 3600.
toArcSeconds_2600(deg, min, sec) ==
    deg * 3600 + min * 60 + (sec * 3600) \div 2600

\* float64(deg) + float64(min)/60.0 + float64(sec)/3600.0, in arc-seconds.
toArcSeconds(deg, min, sec) == deg * 3600 + min * 60 + sec

parseLatLng(str) ==
    IF Len(str) # 16 \/ str[8] # " "
    THEN [point |-> ZeroPoint, err |-> TRUE]
    ELSE
    LET latDeg == ParseUint(SubSeq(str, 1, 2))
        latMin == ParseUint(SubSeq(str, 3, 4))
        latSec == ParseUint(SubSeq(str, 5, 6))
        lat    == toArcSeconds(latDeg.val, latMin.val, latSec.val)
        hemisphereNS == str[7]
        lonDeg == ParseUint(SubSeq(str, 9, 11))
        lonMin == ParseUint(SubSeq(str, 12, 13))
        lonSec == ParseUint(SubSeq(str, 14, 15))
        lon    == toArcSeconds(lonDeg.val, lonMin.val, lonSec.val)
        hemisphereEW == str[16]
    IN  IF latDeg.err \/ latMin.err \/ latSec.err
        THEN [point |-> ZeroPoint, err |-> TRUE]
        ELSE IF hemisphereNS # "S" /\ hemisphereNS # "N"
        THEN [point |-> ZeroPoint, err |-> TRUE]
        ELSE IF lonDeg.err \/ lonMin.err \/ lonSec.err
        THEN [point |-> ZeroPoint, err |-> TRUE]
        ELSE IF hemisphereEW # "W" /\ hemisphereEW # "E"
        THEN [point |-> ZeroPoint, err |-> TRUE]
        ELSE [point |-> << IF hemisphereEW = "W" THEN -lon ELSE lon,
                           IF hemisphereNS = "S" THEN -lat ELSE lat >>,
              err |-> FALSE]

\* The input trimmed but not upper-cased.
decodeHeight_NoUpper(h0) ==
    LET h == TrimSpace(h0)
    IN  IF h = <<>> \/ h = <<"S", "F", "C">>
        THEN 0
        ELSE IF HasPrefix(h, <<"F", "L">>)
        THEN ParseFloat(SubSeq(h, 3, Len(h))).val * 100
        ELSE ParseFloat(TrimSpace(TrimSuffix(h, <<"F", "T">>))).val

decodeHeight(h0) ==
    LET h == ToUpper(TrimSpace(h0))
    IN  IF h = <<>> \/ h = <<"S", "F", "C">>
        THEN 0
        ELSE IF HasPrefix(h, <<"F", "L">>)
        THEN ParseFloat(SubSeq(h, 3, Len(h))).val * 100
        ELSE ParseFloat(TrimSpace(TrimSuffix(h, <<"F", "T">>))).val

\* Statute miles in place of nautical miles.
nautMilesToMeters_statute(nm) == nm * 1609

nautMilesToMeters(nm) == nm * 1852

decodeDistance(d) ==
    nautMilesToMeters(ParseFloat(TrimSuffix(d, <<" ", "n", "m">>)).val)

----------------------------------------------------------------------------
(* Spherical geometry, to first order in the offsets                       *)
(*                                                                         *)
(* Angles are whole degrees and sines are in thousandths.  A bearing is    *)
(* the direction of the offset (dLon * cos(lat), dLat), which is what the  *)
(* great-circle formula of geo.Bearing gives for nearby points, rounded    *)
(* down to a whole degree in (-180, 180], the range of math.Atan2.         *)

SinTable ==
    << 0, 17, 35, 52, 70, 87, 105, 122, 139, 156,
       174, 191, 208, 225, 242, 259, 276, 292, 309, 326,
       342, 358, 375, 391, 407, 423, 438, 454, 469, 485,
       500, 515, 530, 545, 559, 574, 588, 602, 616, 629,
       643, 656, 669, 682, 695, 707, 719, 731, 743, 755,
       766, 777, 788, 799, 809, 819, 829, 839, 848, 857,
       866, 875, 883, 891, 899, 906, 914, 921, 927, 934,
       940, 946, 951, 956, 961, 966, 970, 974, 978, 982,
       985, 988, 990, 993, 995, 996, 998, 999, 999, 1000,
       1000 >>

\* 1000 * sin(a) for a whole number of degrees a.
SinDeg(a) ==
    LET r == a % 360
    IN  IF r <= 90 THEN SinTable[r + 1]
        ELSE IF r <= 180 THEN SinTable[180 - r + 1]
        ELSE IF r <= 270 THEN -SinTable[r - 180 + 1]
        ELSE -SinTable[360 - r + 1]

CosDeg(a) == SinDeg(a + 90)

\* 1000 * cos(lat) for a latitude in arc-seconds, interpolated between
\* whole degrees.
CosArc(lat) ==
    LET d == lat \div 3600
        r == lat % 3600
    IN  CosDeg(d) + ((CosDeg(d + 1) - CosDeg(d)) * r) \div 3600

\* b is clockwise of a by less than half a turn: offsets are <<east, north>>.
Clockwise(a, b) == a[2] * b[1] - a[1] * b[2]

\* The unit vector of the bearing k, in thousandths.
UnitOfBearing(k) == <<SinDeg(k), CosDeg(k)>>

\* v lies at or clockwise of u0 and before u1, within a quarter turn of u0.
InSector(u0, u1, v) ==
    /\ Clockwise(u0, v) >= 0
    /\ Clockwise(v, u1) > 0
    /\ u0[1] * v[1] + u0[2] * v[2] > 0

BearingOfOffset(v) ==
    IF v = <<0, 0>> THEN 0
    ELSE CHOOSE k \in -179..180 :
            InSector(UnitOfBearing(k), UnitOfBearing(k + 1), v)

\* geo.Bearing(from, to), in degrees.
Bearing(from, to) ==
    BearingOfOffset(<< ((Lon(to) - Lon(from)) * CosArc(Lat(to))) \div 1000,
                       Lat(to) - Lat(from) >>)

\* A distance in tenths of a metre as an angle at the Earth's centre, in
\* arc-seconds: distance / orb.EarthRadius, one arc-second being 30.922 m.
angularDistance(distance) == (distance * 100) \div 30922

destinationPoint(start, bearing, distance) ==
    LET d    == angularDistance(distance)
        lat2 == Lat(start) + (d * CosDeg(bearing)) \div 1000
        lon2 == Lon(start) + (d * SinDeg(bearing)) \div CosArc(Lat(start))
    IN  <<lon2, lat2>>

\* The stepping loop going on to the final bearing itself.
RECURSIVE arcSteps_inclusive(_, _, _, _, _)
arcSteps_inclusive(centre, radius, a, finalAngleDeg, dir) ==
    IF dir * a <= dir * finalAngleDeg
    THEN <<destinationPoint(centre, a, radius)>>
           \o arcSteps_inclusive(centre, radius, a + dir * 10, finalAngleDeg,
                                 dir)
    ELSE <<>>

\* The stepping loop: one point every 10 degrees from a up to final.
RECURSIVE arcSteps(_, _, _, _, _)
arcSteps(centre, radius, a, finalAngleDeg, dir) ==
    IF dir * a < dir * finalAngleDeg
    THEN <<destinationPoint(centre, a, radius)>>
           \o arcSteps(centre, radius, a + dir * 10, finalAngleDeg, dir)
    ELSE <<>>

\* The two bearings left as geo.Bearing gave them.
normaliseAngles_asGiven(initialAngleDeg, finalAngleDeg, dir) ==
    [initial |-> initialAngleDeg, final |-> finalAngleDeg]

\* The normalisation of the two bearings for the direction of the sweep.
normaliseAngles(initialAngleDeg, finalAngleDeg, dir) ==
    IF dir > 0
    THEN [ initial |-> initialAngleDeg,
           final   |-> IF finalAngleDeg < initialAngleDeg
                       THEN finalAngleDeg + 360 ELSE finalAngleDeg ]
    ELSE [ initial |-> IF finalAngleDeg > initialAngleDeg
                       THEN initialAngleDeg + 360 ELSE initialAngleDeg,
           final   |-> finalAngleDeg ]

\* The bearings of the start and the end after normalisation.
arcAngles(centre, initialPoint, to, dir) ==
    normaliseAngles(Bearing(centre, initialPoint), Bearing(centre, to), dir)

\* The sweep closed with a point recomputed at the final bearing.
arcSweep_recomputed(centre, radius, n, to, dir) ==
    arcSteps(centre, radius, n.initial, n.final, dir)
      \o <<destinationPoint(centre, n.final, radius)>>

\* The points of the sweep between the bearings n, then the end itself.
arcSweep(centre, radius, n, to, dir) ==
    arcSteps(centre, radius, n.initial, n.final, dir) \o <<to>>

arcToPolygon(centre, radius, initialPoint, to, dir) ==
    arcSweep(centre, radius, arcAngles(centre, initialPoint, to, dir), to,
             dir)

----------------------------------------------------------------------------
(* Features and volumes                                                    *)

prohibitedAirspaceClasses ==
    [ A |-> TRUE, B |-> TRUE, C |-> TRUE, D |-> TRUE, E |-> TRUE,
      F |-> FALSE, G |-> FALSE ]

prohibitedTypes ==
    [ ATZ |-> TRUE, AWY |-> TRUE, CTA |-> TRUE, CTR |-> TRUE, MATZ |-> TRUE,
      P |-> TRUE, R |-> TRUE, RAT |-> TRUE, RMZ |-> TRUE, TMA |-> TRUE,
      TRA |-> TRUE, TMZ |-> TRUE ]

dangerTypes ==
    [ AIAA |-> TRUE, D |-> TRUE, D_OTHER |-> TRUE, DZ |-> TRUE,
      GLIDER |-> TRUE, GVS |-> FALSE, HIRTA |-> TRUE, ILS |-> FALSE,
      LASER |-> TRUE, NOATZ |-> TRUE, UL |-> TRUE ]

\* m[k] of a Go map[string]bool: false for a key that is not there.
Lookup(m, k) == IF k \in DOMAIN m THEN m[k] ELSE FALSE

\* The class alone deciding.
ClearanceRequired_classOnly(f) == Lookup(prohibitedAirspaceClasses, f.Class)

ClearanceRequired(f) ==
    Lookup(prohibitedAirspaceClasses, f.Class) \/ Lookup(prohibitedTypes, f.Type)

\* Every type the table lists taken for a danger type.
Danger_listed(f) == f.Type \in DOMAIN dangerTypes

Danger(f) == Lookup(dangerTypes, f.Type)

NoErr == ""

ZeroCircle == [Radius |-> 0, Centre |-> ZeroPoint]

\* Volume{}
ZeroVolume ==
    [ ID |-> <<>>, Name |-> <<>>, Type |-> "", Class |-> "", Sequence |-> 0,
      Lower |-> 0, Upper |-> 0, ClearanceRequired |-> FALSE, Danger |-> FALSE,
      Circle |-> ZeroCircle, Polygon |-> <<>> ]

\* Only OTHER taken for the sentinel.
resolveAirspaceType_otherOnly(airspaceType, localType) ==
    IF airspaceType = "OTHER" THEN localType ELSE airspaceType

resolveAirspaceType(airspaceType, localType) ==
    IF airspaceType = "OTHER" \/ airspaceType = "D_OTHER"
    THEN localType
    ELSE airspaceType

\* The name alone, without the position.
resolveFeatureID_nameOnly(id0, name, index) ==
    LET id == TrimSpace(id0)
    IN  IF id = <<>>
        THEN ToLower(ReplaceAll(name, " ", "-"))
        ELSE id

\* The position counted from one.
resolveFeatureID_oneBased(id0, name, index) ==
    LET id == TrimSpace(id0)
    IN  IF id = <<>>
        THEN ToLower(ReplaceAll(name, " ", "-")) \o <<"-">>
               \o FormatInt(index + 1)
        ELSE id

resolveFeatureID(id0, name, index) ==
    LET id == TrimSpace(id0)
    IN  IF id = <<>>
        THEN ToLower(ReplaceAll(name, " ", "-")) \o <<"-">> \o FormatInt(index)
        ELSE id

\* The circle set and the error returned for its centre.
setCircle(vol, radius, centre) ==
    IF centre.err
    THEN [vol |-> ZeroVolume, err |-> "bad circle"]
    ELSE [ vol |-> [vol EXCEPT !.Circle =
                      [Radius |-> radius, Centre |-> centre.point]],
           err |-> NoErr ]

\* A zero radius treated as a bad circle.
processCircle_strict(b, vol) ==
    IF b.Circle.Radius # <<>>
    THEN IF decodeDistance(b.Circle.Radius) = 0
         THEN [vol |-> ZeroVolume, err |-> "bad circle"]
         ELSE setCircle(vol, decodeDistance(b.Circle.Radius),
                        parseLatLng(b.Circle.Centre))
    ELSE [vol |-> vol, err |-> NoErr]

\* The circle of one boundary primitive.
processCircle(b, vol) ==
    IF b.Circle.Radius # <<>>
    THEN setCircle(vol, decodeDistance(b.Circle.Radius),
                   parseLatLng(b.Circle.Centre))
    ELSE [vol |-> vol, err |-> NoErr]

\* The line of one boundary primitive, from its i-th point on; p is that
\* point parsed.
RECURSIVE processLine(_, _, _, _)
appendPoint(line, i, vol, currentPos, p) ==
    IF p.err
    THEN [vol |-> ZeroVolume, currentPos |-> currentPos, err |-> "bad line"]
    ELSE processLine(line, i + 1,
                     [vol EXCEPT !.Polygon = Append(@, p.point)], p.point)

processLine(line, i, vol, currentPos) ==
    IF i > Len(line)
    THEN [vol |-> vol, currentPos |-> currentPos, err |-> NoErr]
    ELSE appendPoint(line, i, vol, currentPos, parseLatLng(line[i]))

\* The arc put before the points already there.
appendArc_front(vol, currentPos, dir, to, radius, centre) ==
    IF to.err
    THEN [vol |-> ZeroVolume, err |-> "bad arc"]
    ELSE [ vol |-> [vol EXCEPT !.Polygon =
                      arcToPolygon(centre.point, radius, currentPos,
                                   to.point, dir) \o @],
           err |-> NoErr ]

\* The arc appended, given its end, radius and centre as parsed; the error
\* of the centre is not looked at.
appendArc(vol, currentPos, dir, to, radius, centre) ==
    IF to.err
    THEN [vol |-> ZeroVolume, err |-> "bad arc"]
    ELSE [ vol |-> [vol EXCEPT !.Polygon =
                      @ \o arcToPolygon(centre.point, radius, currentPos,
                                        to.point, dir)],
           err |-> NoErr ]

\* The arc of one boundary primitive.
processArc(b, vol, currentPos) ==
    IF b.Arc.Radius # <<>>
    THEN appendArc(vol, currentPos, IF b.Arc.Dir = "ccw" THEN -1 ELSE 1,
                   parseLatLng(b.Arc.To), decodeDistance(b.Arc.Radius),
                   parseLatLng(b.Arc.Centre))
    ELSE [vol |-> vol, err |-> NoErr]

\* The lines of a primitive after its circle c.
linesAfter(b, c, currentPos) ==
    IF c.err # NoErr
    THEN [vol |-> c.vol, currentPos |-> currentPos, err |-> c.err]
    ELSE processLine(b.Line, 1, c.vol, currentPos)

\* The current position moved to the last point of the polygon.
arcOutcome_moved(a, currentPos) ==
    [ vol        |-> a.vol,
      currentPos |-> IF a.vol.Polygon # <<>>
                     THEN a.vol.Polygon[Len(a.vol.Polygon)]
                     ELSE currentPos,
      err        |-> a.err ]

\* The outcome a of an arc, with the current position it leaves alone.
arcOutcome(a, currentPos) ==
    [vol |-> a.vol, currentPos |-> currentPos, err |-> a.err]

\* The arc of a primitive after its lines l.
arcAfter(b, l) ==
    IF l.err # NoErr THEN l
    ELSE arcOutcome(processArc(b, l.vol, l.currentPos), l.currentPos)

\* One boundary primitive: its circle, its lines, its arc.
processPrimitive(b, vol, currentPos) ==
    arcAfter(b, linesAfter(b, processCircle(b, vol), currentPos))

\* The loop over the boundary primitives, from the i-th on; r is the i-th
\* as processed.
RECURSIVE processBoundary(_, _, _, _)
nextPrimitive(boundary, i, r) ==
    IF r.err # NoErr
    THEN [vol |-> r.vol, err |-> r.err]
    ELSE processBoundary(boundary, i + 1, r.vol, r.currentPos)

processBoundary(boundary, i, vol, currentPos) ==
    IF i > Len(boundary)
    THEN [vol |-> vol, err |-> NoErr]
    ELSE nextPrimitive(boundary, i,
                       processPrimitive(boundary[i], vol, currentPos))

\* The name and the class taken from the feature whenever the ID is.
newVolume_joint(g, feat) ==
    [ ID                |-> IF g.ID = <<>> THEN feat.ID ELSE g.ID,
      Name              |-> IF g.ID = <<>> THEN feat.Name ELSE g.Name,
      Type              |-> feat.Type,
      Class             |-> IF g.ID = <<>> THEN feat.Class ELSE g.Class,
      Sequence          |-> g.Seqno,
      Lower             |-> decodeHeight(g.Lower),
      Upper             |-> decodeHeight(g.Upper),
      ClearanceRequired |-> ClearanceRequired(feat),
      Danger            |-> Danger(feat),
      Circle            |-> ZeroCircle,
      Polygon           |-> <<>> ]

\* The clearance flag taken from the class of the volume itself.
newVolume_ownClass(g, feat) ==
    [ ID                |-> IF g.ID = <<>> THEN feat.ID ELSE g.ID,
      Name              |-> IF g.Name = <<>> THEN feat.Name ELSE g.Name,
      Type              |-> feat.Type,
      Class             |-> IF g.Class = "" THEN feat.Class ELSE g.Class,
      Sequence          |-> g.Seqno,
      Lower             |-> decodeHeight(g.Lower),
      Upper             |-> decodeHeight(g.Upper),
      ClearanceRequired |-> ClearanceRequired(
                              [feat EXCEPT !.Class =
                                 IF g.Class = "" THEN feat.Class
                                 ELSE g.Class]),
      Danger            |-> Danger(feat),
      Circle            |-> ZeroCircle,
      Polygon           |-> <<>> ]

\* The volume as declared, before its boundary is processed.
newVolume(g, feat) ==
    [ ID                |-> IF g.ID = <<>> THEN feat.ID ELSE g.ID,
      Name              |-> IF g.Name = <<>> THEN feat.Name ELSE g.Name,
      Type              |-> feat.Type,
      Class             |-> IF g.Class = "" THEN feat.Class ELSE g.Class,
      Sequence          |-> g.Seqno,
      Lower             |-> decodeHeight(g.Lower),
      Upper             |-> decodeHeight(g.Upper),
      ClearanceRequired |-> ClearanceRequired(feat),
      Danger            |-> Danger(feat),
      Circle            |-> ZeroCircle,
      Polygon           |-> <<>> ]

processGeometry(g, feat) ==
    processBoundary(g.Boundary, 1, newVolume(g, feat), ZeroPoint)

RECURSIVE normaliseGeometry(_, _, _)
\* The volume put before the others.
appendVolume_front(geometry, j, feat, r) ==
    IF r.err # NoErr
    THEN [feat |-> feat, err |-> r.err]
    ELSE normaliseGeometry(geometry, j + 1,
                           [feat EXCEPT !.Geometry = <<r.vol>> \o @])

\* The loop over the geometry of one record, from the j-th sequence on; r
\* is that sequence as processed.
appendVolume(geometry, j, feat, r) ==
    IF r.err # NoErr
    THEN [feat |-> feat, err |-> r.err]
    ELSE normaliseGeometry(geometry, j + 1,
                           [feat EXCEPT !.Geometry = Append(@, r.vol)])

normaliseGeometry(geometry, j, feat) ==
    IF j > Len(geometry)
    THEN [feat |-> feat, err |-> NoErr]
    ELSE appendVolume(geometry, j, feat, processGeometry(geometry[j], feat))

\* The type of the record taken as it is written.
newFeature_rawType(f, index) ==
    [ ID       |-> resolveFeatureID(f.ID, f.Name, index),
      Name     |-> f.Name,
      Type     |-> f.Type,
      Class    |-> f.Class,
      Geometry |-> <<>> ]

\* The feature of the record f at index, before its geometry.
newFeature(f, index) ==
    [ ID       |-> resolveFeatureID(f.ID, f.Name, index),
      Name     |-> f.Name,
      Type     |-> resolveAirspaceType(f.Type, f.LocalType),
      Class    |-> f.Class,
      Geometry |-> <<>> ]

\* The loop over the records, from the i-th on: the features built when it
\* stopped, and the error that stopped it; r is the i-th record as
\* normalised.
RECURSIVE normaliseLoop(_, _, _)
appendFeature(airspace, i, feats, r) ==
    IF r.err # NoErr
    THEN [features |-> feats, err |-> r.err]
    ELSE normaliseLoop(airspace, i + 1, Append(feats, r.feat))

normaliseLoop(airspace, i, feats) ==
    IF i > Len(airspace)
    THEN [features |-> feats, err |-> NoErr]
    ELSE appendFeature(airspace, i, feats,
                       normaliseGeometry(airspace[i].Geometry, 1,
                                         newFeature(airspace[i], i - 1)))

\* What normalise returns for the outcome r of its loop: nil with an error.
returned(r) ==
    IF r.err # NoErr THEN [features |-> <<>>, err |-> r.err] ELSE r

\* The features built so far returned with the error.
normalise_partial(a) == normaliseLoop(a.Airspace, 1, <<>>)

\* A nil slice is the empty sequence.
normalise(a) == returned(normaliseLoop(a.Airspace, 1, <<>>))

\* The error of yaml.Unmarshal not looked at.
Decode_unchecked(data) == normalise(data.a)

\* data is the document: whether yaml.Unmarshal accepts it, and the
\* airspaceResponse it yields.
Decode(data) ==
    IF ~data.valid
    THEN [features |-> <<>>, err |-> "failed to unmarshal YAML"]
    ELSE normalise(data.a)

----------------------------------------------------------------------------
(* Containment                                                             *)

\* The northing of project.WGS84.ToMercator at each whole degree of
\* latitude from 0 to 75, in metres: 6378137 * ln(tan(45 + lat/2)).
MercatorNorthing ==
    << 0, 111325, 222684, 334111, 445640, 557305,
       669141, 781182, 893464, 1006021, 1118890, 1232107,
       1345708, 1459732, 1574217, 1689200, 1804723, 1920825,
       2037549, 2154936, 2273031, 2391879, 2511525, 2632019,
       2753408, 2875745, 2999081, 3123472, 3248974, 3375646,
       3503550, 3632749, 3763311, 3895304, 4028802, 4163881,
       4300621, 4439107, 4579426, 4721672, 4865942, 5012342,
       5160979, 5311972, 5465442, 5621521, 5780349, 5942074,
       6106855, 6274861, 6446276, 6621294, 6800125, 6982998,
       7170156, 7361866, 7558416, 7760119, 7967318, 8180387,
       8399738, 8625823, 8859143, 9100251, 9349764, 9608372,
       9876846, 10156059, 10446997, 10750787, 11068716, 11402272,
       11753185, 12123478, 12515545, 12932243 >>

\* The northing of a latitude of 0..75 degrees given in arc-seconds,
\* interpolated between whole degrees.
northing(lat) ==
    LET d == lat \div 3600
        r == lat % 3600
    IN  IF r = 0 THEN MercatorNorthing[d + 1]
        ELSE MercatorNorthing[d + 1]
               + ((MercatorNorthing[d + 2] - MercatorNorthing[d + 1]) * r)
                   \div 3600

\* project.Point(p, project.WGS84.ToMercator), in metres: one arc-second of
\* longitude is 30.922 m.
ToMercator(p) ==
    << (Lon(p) * 30922) \div 1000,
       IF Lat(p) >= 0 THEN northing(Lat(p)) ELSE -northing(-Lat(p)) >>

Abs(n) == IF n < 0 THEN -n ELSE n

\* The boundary of the circle left out.
distanceWithin_strict(a, b, radius) ==
    LET dx == Abs(a[1] - b[1])
        dy == Abs(a[2] - b[2])
        m  == radius \div 10
        t  == radius % 10
    IN  /\ radius >= 0
        /\ dx <= m + 1
        /\ dy <= m + 1
        /\ dx * dx + dy * dy < m * m + (20 * m * t + t * t) \div 100

\* planar.Distance(a, b) <= radius, for a and b in metres and the radius in
\* tenths of a metre: dx^2 + dy^2 <= floor(radius^2 / 100).
distanceWithin(a, b, radius) ==
    LET dx == Abs(a[1] - b[1])
        dy == Abs(a[2] - b[2])
        m  == radius \div 10
        t  == radius % 10
    IN  /\ radius >= 0
        /\ dx <= m + 1
        /\ dy <= m + 1
        /\ dx * dx + dy * dy <= m * m + (20 * m * t + t * t) \div 100

\* Whether the ray from p towards greater y meets the segment s0-e0, and
\* whether p lies on it.  A p above an end of the segment is moved to the
\* right by the least amount (math.Nextafter) before the test.
rayIntersect(p, s0, e0) ==
    LET s == IF s0[1] > e0[1] THEN e0 ELSE s0
        e == IF s0[1] > e0[1] THEN s0 ELSE e0
        On   == [inter |-> FALSE, on |-> TRUE]
        Miss == [inter |-> FALSE, on |-> FALSE]
        Hit  == [inter |-> TRUE, on |-> FALSE]
        nudged == p[1] = s[1] \/ p[1] = e[1]
        lhs == (p[2] - s[2]) * (e[1] - s[1])
        rhs == (e[2] - s[2]) * (p[1] - s[1])
    IN  IF p[1] = s[1] /\ p[2] = s[2] THEN On
        ELSE IF /\ p[1] = s[1]
                /\ s[1] = e[1]
                /\ \/ s[2] > e[2] /\ s[2] >= p[2] /\ p[2] >= e[2]
                   \/ e[2] > s[2] /\ e[2] >= p[2] /\ p[2] >= s[2]
        THEN On
        ELSE IF p[1] # s[1] /\ p[1] = e[1] /\ p[2] = e[2] THEN On
        ELSE IF p[1] < s[1] \/ p[1] > e[1] \/ (nudged /\ p[1] = e[1])
        THEN Miss
        ELSE IF s[2] > e[2] /\ p[2] > s[2] THEN Miss
        ELSE IF s[2] > e[2] /\ p[2] < e[2] THEN Hit
        ELSE IF s[2] <= e[2] /\ p[2] > e[2] THEN Miss
        ELSE IF s[2] <= e[2] /\ p[2] < s[2] THEN Hit
        ELSE IF nudged THEN (IF p[2] < s[2] THEN Hit ELSE Miss)
        ELSE IF lhs = rhs THEN On
        ELSE IF lhs <= rhs THEN Hit ELSE Miss

\* r.Bound().Contains(p)
boundContains(r, p) ==
    /\ \E i \in 1..Len(r) : r[i][1] <= p[1]
    /\ \E i \in 1..Len(r) : r[i][1] >= p[1]
    /\ \E i \in 1..Len(r) : r[i][2] <= p[2]
    /\ \E i \in 1..Len(r) : r[i][2] >= p[2]

\* planar.RingContains(r, p): points on the boundary are inside.
RingContains(r, p) ==
    LET seg(i) == IF i = 0 THEN rayIntersect(p, r[1], r[Len(r)])
                  ELSE rayIntersect(p, r[i], r[i + 1])
        segs   == 0..(Len(r) - 1)
    IN  /\ boundContains(r, p)
        /\ \/ \E i \in segs : seg(i).on
           \/ Cardinality({i \in segs : seg(i).inter}) % 2 = 1

\* The circle test made for a radius of zero as well.
isEnclosedBy_zeroRadius(p, vol) ==
    IF distanceWithin(ToMercator(p), ToMercator(vol.Circle.Centre),
                      vol.Circle.Radius)
    THEN TRUE
    ELSE IF Len(vol.Polygon) > 0 /\ RingContains(vol.Polygon, p)
    THEN TRUE
    ELSE FALSE

\* A volume whose lower bound is above its upper bound enclosing nothing.
isEnclosedBy_bounded(p, vol) ==
    IF vol.Lower > vol.Upper THEN FALSE
    ELSE IF /\ vol.Circle.Radius # 0
            /\ distanceWithin(ToMercator(p), ToMercator(vol.Circle.Centre),
                              vol.Circle.Radius)
    THEN TRUE
    ELSE IF Len(vol.Polygon) > 0 /\ RingContains(vol.Polygon, p)
    THEN TRUE
    ELSE FALSE

isEnclosedBy(p, vol) ==
    IF /\ vol.Circle.Radius # 0
       /\ distanceWithin(ToMercator(p), ToMercator(vol.Circle.Centre),
                         vol.Circle.Radius)
    THEN TRUE
    ELSE IF Len(vol.Polygon) > 0 /\ RingContains(vol.Polygon, p)
    THEN TRUE
    ELSE FALSE

\* The volumes of one feature that enclose the point, in order.
RECURSIVE enclosingOf(_, _, _)
enclosingOf(point, geometry, j) ==
    IF j > Len(geometry) THEN <<>>
    ELSE (IF isEnclosedBy(point, geometry[j]) THEN <<geometry[j]>> ELSE <<>>)
           \o enclosingOf(point, geometry, j + 1)

\* The loop over the features left at the first enclosing volume of each.
RECURSIVE EnclosingVolumes_first(_, _, _)
EnclosingVolumes_first(point, feats, order) ==
    IF order = <<>> THEN <<>>
    ELSE LET e == enclosingOf(point, feats[Head(order)].Geometry, 1)
         IN  (IF e = <<>> THEN <<>> ELSE <<Head(e)>>)
               \o EnclosingVolumes_first(point, feats, Tail(order))

\* The loop over the features left at the first feature, in the order of the
\* range, that has an enclosing volume.
RECURSIVE EnclosingVolumes_firstFeature(_, _, _)
EnclosingVolumes_firstFeature(point, feats, order) ==
    IF order = <<>> THEN <<>>
    ELSE IF enclosingOf(point, feats[Head(order)].Geometry, 1) # <<>>
         THEN enclosingOf(point, feats[Head(order)].Geometry, 1)
         ELSE EnclosingVolumes_firstFeature(point, feats, Tail(order))

\* order is the order in which the range over the map visits its keys.
RECURSIVE EnclosingVolumes(_, _, _)
EnclosingVolumes(point, feats, order) ==
    IF order = <<>> THEN <<>>
    ELSE enclosingOf(point, feats[Head(order)].Geometry, 1)
           \o EnclosingVolumes(point, feats, Tail(order))

\* The orders in which a map with the given keys can be visited.
Orders(keys) ==
    { o \in [1..Cardinality(keys) -> keys] :
        \A i, j \in 1..Cardinality(keys) : i # j => o[i] # o[j] }

\* main's map of the features by ID: a later feature replaces an earlier
\* one of the same ID.
RECURSIVE featuresByID(_, _)
featuresByID(featureList, n) ==
    IF n = 0 THEN <<>>
    ELSE LET m == featuresByID(featureList, n - 1)
             f == featureList[n]
         IN  [id \in DOMAIN m \cup {f.ID} |-> IF id = f.ID THEN f ELSE m[id]]

----------------------------------------------------------------------------
(* Inputs of the decoders                                                  *)

\* The largest run of blanks put around a height string.
MaxPad == 1

TwoDigits(n) == <<DigitChar((n \div 10) % 10), DigitChar(n % 10)>>

ThreeDigits(n) == <<DigitChar((n \div 100) % 10)>> \o TwoDigits(n)

\* The position string DDMMSSH DDDMMSSH of the given fields.
FormatPos(latD, latM, latS, ns, lonD, lonM, lonS, ew) ==
    TwoDigits(latD) \o TwoDigits(latM) \o TwoDigits(latS) \o <<ns, " ">>
      \o ThreeDigits(lonD) \o TwoDigits(lonM) \o TwoDigits(lonS) \o <<ew>>

GoodPositions ==
    { FormatPos(f[1], f[2], f[3], f[4], f[5], f[6], f[7], f[8]) :
        f \in {0, 50, 57, 99} \X {0, 22, 75} \X {0, 57} \X {"N", "S"}
                \X {0, 3, 123, 999} \X {0, 37} \X {0, 39} \X {"E", "W"} }

BasePositions ==
    { FormatPos(50, 22, 57, "N", 3, 37, 39, "W"),
      FormatPos(1, 23, 45, "S", 123, 45, 0, "E") }

OddChars == {" ", "X", "-", "+", ".", "5", "N", "S", "E", "W", "n", "e"}

\* Every base position with one character replaced, and positions of a
\* wrong length.
OddPositions ==
    { [b EXCEPT ![i] = c] : b \in BasePositions, i \in 1..16, c \in OddChars }
      \cup { SubSeq(b, 1, n) : b \in BasePositions, n \in {0, 7, 8, 12, 15} }
      \cup { b \o <<c>> : b \in BasePositions, c \in {"0", " "} }
      \cup { <<" ">> \o b : b \in BasePositions }

Positions == GoodPositions \cup OddPositions

\* A decimal literal with the value it denotes, in tenths.
NumLit(sign, n, f) ==
    [ text |-> sign \o FormatInt(n)
                 \o (IF f < 0 THEN <<>> ELSE <<".", DigitChar(f)>>),
      ok   |-> TRUE,
      val  |-> (IF sign = <<"-">> THEN -1 ELSE 1)
                 * (n * 10 + (IF f < 0 THEN 0 ELSE f)) ]

GoodNums ==
    { NumLit(s, n, f) : s \in {<<>>, <<"+">>, <<"-">>},
                        n \in {0, 1, 5, 10, 85, 115, 500, 1500},
                        f \in {-1, 0, 5} }

BadNum(text) == [text |-> text, ok |-> FALSE, val |-> 0]

BadNums ==
    { BadNum(t) : t \in { <<"X">>, <<"1", "2", "X">>, <<".">>, <<"-">>,
                          <<"1", ".", "2", ".", "3">>, <<"1", " ", "2">>,
                          <<>>, <<"S", "F", "C">>,
                          <<"-", "-", "1">> } }

Nums == GoodNums \cup BadNums

Blanks(n) == [i \in 1..n |-> " "]

Pads == { Blanks(n) : n \in 0..MaxPad } \cup { <<"\t">> }

\* Letter cases of a string: upper, lower, and lower at the odd places.
Casing(s, k) ==
    CASE k = 0 -> ToUpper(s)
      [] k = 1 -> ToLower(s)
      [] OTHER -> [i \in 1..Len(s) |->
                     IF i % 2 = 1 THEN ToLowerChar(s[i]) ELSE ToUpperChar(s[i])]

\* The body of a height string of each kind, in capitals.
HeightBody(kind, num) ==
    CASE kind = "empty" -> <<>>
      [] kind = "sfc"   -> <<"S", "F", "C">>
      [] kind = "fl"    -> <<"F", "L">> \o num.text
      [] kind = "ft"    -> num.text \o <<"F", "T">>
      [] kind = "sp_ft" -> num.text \o <<" ", "F", "T">>
      [] kind = "fl_ft" -> <<"F", "L">> \o num.text \o <<"F", "T">>
      [] OTHER          -> num.text

HeightKinds == {"empty", "sfc", "fl", "ft", "sp_ft", "fl_ft", "plain"}

HeightCalls ==
    { [ fn   |-> "decodeHeight",
        h    |-> padL \o Casing(HeightBody(kind, num), k) \o padR,
        kind |-> kind,
        num  |-> num ] :
        padL \in Pads, padR \in Pads, k \in 0..2,
        kind \in HeightKinds, num \in Nums }

DistanceBody(kind, num) ==
    CASE kind = "nm"    -> num.text \o <<" ", "n", "m">>
      [] kind = "NM"    -> num.text \o <<" ", "N", "M">>
      [] kind = "nm0"   -> num.text \o <<"n", "m">>
      [] OTHER          -> num.text

DistanceKinds == {"nm", "NM", "nm0", "plain"}

DistanceCalls ==
    { [ fn   |-> "decodeDistance",
        d    |-> DistanceBody(kind, num),
        kind |-> kind,
        num  |-> num ] :
        kind \in DistanceKinds, num \in Nums }

PositionCalls == { [fn |-> "parseLatLng", str |-> s] : s \in Positions }

\* The largest arc radius tried, in nautical miles.
MaxRadiusNm == 10

\* 57:18:34 N 002:16:02 W, the centre of an arc of the ABERDEEN CTA.
ArcCentre == <<-(2 * 3600 + 16 * 60 + 2), 57 * 3600 + 18 * 60 + 34>>

ArcCentres == {ArcCentre, ZeroPoint}

ArcRadii == { nautMilesToMeters(nm * 10) : nm \in {0, 5, MaxRadiusNm} }

ArcBearings == {0, 5, 10, 45, 75, 90, 180, 270, 350, 355}

\* The ends of an arc: points on the circle, its centre, and the zero point.
ArcEnds(centre, radius) ==
    { destinationPoint(centre, b, radius) : b \in ArcBearings }
      \cup {centre, ZeroPoint}

ArcCalls ==
    UNION { { [ fn           |-> "arcToPolygon",
                centre       |-> centre,
                radius       |-> radius,
                initialPoint |-> initialPoint,
                to           |-> to,
                dir          |-> dir ] :
                initialPoint \in ArcEnds(centre, radius),
                to \in ArcEnds(centre, radius),
                dir \in {1, -1} } :
            centre \in ArcCentres, radius \in ArcRadii }

\* Raw types: the two sentinels, ordinary types, and near misses.
RawTypes ==
    { "OTHER", "D_OTHER", "CTR", "CTA", "D", "", "other", "d_other",
      "OTHER ", "D_OTHERS", "DOTHER", "IGNORED" }

LocalTypes == {"MATZ", "GVS", "IGNORED", "", "OTHER", "DZ"}

TypeCalls ==
    { [fn |-> "resolveAirspaceType", airspaceType |-> t, localType |-> l] :
        t \in RawTypes, l \in LocalTypes }

\* Raw IDs with what trimming leaves of them.
RawIDs ==
    { [raw |-> <<"l", "o", "n", "d", "o", "n", "-", "c", "t", "r">>, trimmed |-> <<"l", "o", "n", "d", "o", "n", "-", "c", "t", "r">>],
      [raw |-> <<" ", " ", "a", "b", "e", "r", "d", "e", "e", "n", "-", "c", "t", "a", " ", " ">>, trimmed |-> <<"a", "b", "e", "r", "d", "e", "e", "n", "-", "c", "t", "a">>],
      [raw |-> <<>>, trimmed |-> <<>>],
      [raw |-> <<" ">>, trimmed |-> <<>>],
      [raw |-> <<"\t", " ">>, trimmed |-> <<>>],
      [raw |-> <<" ", "a", " ", "b", " ">>, trimmed |-> <<"a", " ", "b">>],
      [raw |-> <<"X", "-", "1", "\t">>, trimmed |-> <<"X", "-", "1">>] }

\* Names with their lower-cased, hyphenated form.
FeatureNames ==
    { [name |-> <<"D", "r", "o", "p", " ", "Z", "o", "n", "e", " ", "A", "l", "p", "h", "a">>,
        slug |-> <<"d", "r", "o", "p", "-", "z", "o", "n", "e", "-", "a", "l", "p", "h", "a">>],
      [name |-> <<"T", "e", "s", "t", " ", "A", "r", "e", "a">>,
        slug |-> <<"t", "e", "s", "t", "-", "a", "r", "e", "a">>],
      [name |-> <<>>,
        slug |-> <<>>],
      [name |-> <<"A", " ", " ", "B">>,
        slug |-> <<"a", "-", "-", "b">>],
      [name |-> <<"a", "l", "r", "e", "a", "d", "y", "-", "l", "o", "w", "e", "r">>,
        slug |-> <<"a", "l", "r", "e", "a", "d", "y", "-", "l", "o", "w", "e", "r">>],
      [name |-> <<" ", "N", " ", "Z">>,
        slug |-> <<"-", "n", "-", "z">>] }

\* Positions in the source list with their decimal text.
FeatureIndexes ==
    { [index |-> 0, text |-> <<"0">>],
      [index |-> 1, text |-> <<"1">>],
      [index |-> 5, text |-> <<"5">>],
      [index |-> 42, text |-> <<"4", "2">>],
      [index |-> 100, text |-> <<"1", "0", "0">>] }

IDCalls ==
    { [fn |-> "resolveFeatureID", id |-> i, name |-> n, index |-> x] :
        i \in RawIDs, n \in FeatureNames, x \in FeatureIndexes }

\* Classes: the seven of the table, the empty class and strangers.
FeatureClasses == {"A", "B", "C", "D", "E", "F", "G", "", "a", "d", "H"}

\* Types: every key of the two tables, and strangers.
FeatureTypes ==
    { "ATZ", "AWY", "CTA", "CTR", "MATZ", "P", "R", "RAT", "RMZ", "TMA",
      "TRA", "TMZ",
      "AIAA", "D", "D_OTHER", "DZ", "GLIDER", "GVS", "HIRTA", "ILS",
      "LASER", "NOATZ", "UL",
      "OTHER", "", "ctr", "dz", "Ctr", "A", "G", "X" }

ClassifiedFeatures ==
    { [ ID |-> <<>>, Name |-> <<>>, Type |-> t, Class |-> c,
        Geometry |-> <<>> ] : t \in FeatureTypes, c \in FeatureClasses }

ClearanceCalls ==
    { [fn |-> "ClearanceRequired", f |-> f] : f \in ClassifiedFeatures }

DangerCalls == { [fn |-> "Danger", f |-> f] : f \in ClassifiedFeatures }

NoRet == [fn |-> "none"]

\* No request for a position served yet.
NoQuery == <<>>

\* The most requests handled at a time.
MaxInFlight == 2

Slots == 1..MaxInFlight

\* A slot with no request in it.
Idle == [point |-> <<>>, order |-> <<>>, next |-> 0, found |-> <<>>]

NoneInFlight == [s \in Slots |-> Idle]

----------------------------------------------------------------------------
(* The decoders called on their inputs                                     *)

InitFn ==
    /\ call \in PositionCalls \cup HeightCalls \cup DistanceCalls
                 \cup ArcCalls \cup TypeCalls \cup IDCalls
                 \cup ClearanceCalls \cup DangerCalls
    /\ ret = NoRet
    /\ doc = [valid |-> TRUE, a |-> [Airspace |-> <<>>]]
    /\ pc = "start"
    /\ decoded = [features |-> <<>>, err |-> NoErr]
    /\ features = <<>>
    /\ query = NoQuery
    /\ result = <<>>
    /\ inflight = NoneInFlight

CallParseLatLng ==
    /\ call.fn = "parseLatLng"
    /\ ret = NoRet
    /\ ret' = [ fn    |-> "parseLatLng",
                point |-> parseLatLng(call.str).point,
                err   |-> parseLatLng(call.str).err ]
    /\ UNCHANGED <<call, doc, pc, decoded, features, query, result, inflight>>

CallDecodeHeight ==
    /\ call.fn = "decodeHeight"
    /\ ret = NoRet
    /\ ret' = [fn |-> "decodeHeight", val |-> decodeHeight(call.h)]
    /\ UNCHANGED <<call, doc, pc, decoded, features, query, result, inflight>>

CallDecodeDistance ==
    /\ call.fn = "decodeDistance"
    /\ ret = NoRet
    /\ ret' = [fn |-> "decodeDistance", val |-> decodeDistance(call.d)]
    /\ UNCHANGED <<call, doc, pc, decoded, features, query, result, inflight>>

CallArcToPolygon ==
    /\ call.fn = "arcToPolygon"
    /\ ret = NoRet
    /\ ret' = [ fn   |-> "arcToPolygon",
                poly |-> arcToPolygon(call.centre, call.radius,
                                      call.initialPoint, call.to, call.dir) ]
    /\ UNCHANGED <<call, doc, pc, decoded, features, query, result, inflight>>

CallResolveAirspaceType ==
    /\ call.fn = "resolveAirspaceType"
    /\ ret = NoRet
    /\ ret' = [ fn  |-> "resolveAirspaceType",
                val |-> resolveAirspaceType(call.airspaceType,
                                            call.localType) ]
    /\ UNCHANGED <<call, doc, pc, decoded, features, query, result, inflight>>

CallResolveFeatureID ==
    /\ call.fn = "resolveFeatureID"
    /\ ret = NoRet
    /\ ret' = [ fn  |-> "resolveFeatureID",
                val |-> resolveFeatureID(call.id.raw, call.name.name,
                                         call.index.index) ]
    /\ UNCHANGED <<call, doc, pc, decoded, features, query, result, inflight>>

CallClearanceRequired ==
    /\ call.fn = "ClearanceRequired"
    /\ ret = NoRet
    /\ ret' = [fn |-> "ClearanceRequired", val |-> ClearanceRequired(call.f)]
    /\ UNCHANGED <<call, doc, pc, decoded, features, query, result, inflight>>

CallDanger ==
    /\ call.fn = "Danger"
    /\ ret = NoRet
    /\ ret' = [fn |-> "Danger", val |-> Danger(call.f)]
    /\ UNCHANGED <<call, doc, pc, decoded, features, query, result, inflight>>

NextFn ==
    \/ CallParseLatLng
    \/ CallDecodeHeight
    \/ CallDecodeDistance
    \/ CallArcToPolygon
    \/ CallResolveAirspaceType
    \/ CallResolveFeatureID
    \/ CallClearanceRequired
    \/ CallDanger

SpecFn == InitFn /\ [][NextFn]_vars

----------------------------------------------------------------------------
(* Documents                                                               *)

\* The positions of the ABERDEEN CTA (airspace_test.go): the centre of its
\* arcs and three corners of its first sequence.
PA == FormatPos(57, 18, 34, "N", 2, 16, 2, "W")
PB == FormatPos(57, 21, 0, "N", 2, 33, 56, "W")
PC == FormatPos(57, 21, 53, "N", 1, 58, 35, "W")
PD == FormatPos(57, 21, 0, "N", 1, 58, 2, "W")

\* A position with a letter among its digits.
BadPos == [PA EXCEPT ![3] = "X"]

Nm8   == <<"8", " ", "n", "m">>
Nm10  == <<"1", "0", " ", "n", "m">>
BadNm == <<"X", " ", "n", "m">>
Nm95  == <<"9", ".", "5", " ", "n", "m">>

NoCircle == [Radius |-> <<>>, Centre |-> <<>>]
NoArc    == [Dir |-> "", Radius |-> <<>>, Centre |-> <<>>, To |-> <<>>]

Prim(c, l, a) == [Circle |-> c, Line |-> l, Arc |-> a]

CirclePrim(radius, centre) ==
    Prim([Radius |-> radius, Centre |-> centre], <<>>, NoArc)

LinePrim(line) == Prim(NoCircle, line, NoArc)

ArcPrim(dir, radius, centre, to) ==
    Prim(NoCircle, <<>>,
         [Dir |-> dir, Radius |-> radius, Centre |-> centre, To |-> to])

\* The boundary primitives the documents are built from.
Primitives ==
    { Prim(NoCircle, <<>>, NoArc),
      CirclePrim(Nm8, PA),
      CirclePrim(Nm8, BadPos),
      CirclePrim(BadNm, PA),
      CirclePrim(<<>>, BadPos),
      LinePrim(<<PC, PD, PB>>),
      LinePrim(<<PC, BadPos>>),
      ArcPrim("cw", Nm10, PA, PC),
      ArcPrim("ccw", Nm10, PA, PB),
      ArcPrim("cw", Nm10, PA, BadPos),
      ArcPrim("cw", Nm10, BadPos, PC),
      ArcPrim("cw", BadNm, PA, PC),
      ArcPrim("cw", <<>>, PA, BadPos) }

\* The most boundary primitives in one geometry sequence.
MaxPrims == 2

Boundaries == UNION { [1..n -> Primitives] : n \in 0..MaxPrims }

\* Height strings, with the height each denotes in tenths of a foot and
\* whether its number is well-formed.
HeightTexts ==
    { [text |-> <<"S", "F", "C">>, ok |-> TRUE, val |-> 0],
      [text |-> <<"F", "L", "5", "5">>, ok |-> TRUE, val |-> 55000],
      [text |-> <<"1", "5", "0", "0", " ", "f", "t">>, ok |-> TRUE,
       val |-> 15000],
      [text |-> <<"F", "L", "X">>, ok |-> FALSE, val |-> 0],
      [text |-> <<"1", "2", "X", " ", "f", "t">>, ok |-> FALSE, val |-> 0],
      [text |-> <<"X">>, ok |-> FALSE, val |-> 0] }

Geom(id, name, class, seqno, boundary, lower, upper) ==
    [ ID |-> id, Name |-> name, Class |-> class, Seqno |-> seqno,
      Boundary |-> boundary, Lower |-> lower, Upper |-> upper ]

PlainGeom(boundary, lower, upper) ==
    Geom(<<>>, <<>>, "", 1, boundary, lower, upper)

\* A circle of 8 nm around PA, from the surface to FL55.
CircleGeom ==
    PlainGeom(<<CirclePrim(Nm8, PA)>>, <<"S", "F", "C">>,
              <<"F", "L", "5", "5">>)

\* A circle of 9.5 nm (17594 m) around PA.
WideCircleGeom ==
    PlainGeom(<<CirclePrim(Nm95, PA)>>, <<"S", "F", "C">>,
              <<"F", "L", "5", "5">>)

\* The first sequence of the ABERDEEN CTA: three corners and an arc.
CapBoundary == <<LinePrim(<<PC, PD, PB>>), ArcPrim("cw", Nm10, PA, PC)>>

BoundaryGeoms ==
    { PlainGeom(b, <<"S", "F", "C">>, <<"F", "L", "5", "5">>) :
        b \in Boundaries }

HeightGeoms ==
    { PlainGeom(b, lo.text, up.text) :
        b \in {<<CirclePrim(Nm8, PA)>>, <<CirclePrim(BadNm, PA)>>,
               CapBoundary},
        lo \in HeightTexts, up \in HeightTexts }

\* Sequences with an ID, a name and a class of their own.
OwnGeoms ==
    { Geom(<<"x", "1">>, <<"X", " ", "1">>, "A", 2, b, <<"S", "F", "C">>,
           <<"F", "L", "5", "5">>) :
        b \in {<<CirclePrim(Nm8, PA)>>, CapBoundary,
               <<LinePrim(<<PC, BadPos>>)>>} }

\* Sequences with each of ID, name and class given or left blank, numbered
\* 2, from 1500 ft to FL55; an ID of one blank is given, not blank.
InheritGeoms ==
    { Geom(id, name, class, 2, <<CirclePrim(Nm8, PA)>>,
           <<"1", "5", "0", "0", " ", "f", "t">>, <<"F", "L", "5", "5">>) :
        id \in {<<>>, <<"x", "1">>, <<" ">>},
        name \in {<<>>, <<"X", " ", "1">>},
        class \in {"", "A"} }

\* Sequences of at most one primitive.
ShortGeoms ==
    { PlainGeom(b, <<"S", "F", "C">>, <<"F", "L", "5", "5">>) :
        b \in {<<>>} \cup { <<p>> : p \in Primitives } }
      \cup {PlainGeom(CapBoundary, <<"S", "F", "C">>, <<"F", "L", "5", "5">>)}

Geometries == BoundaryGeoms \cup HeightGeoms \cup OwnGeoms

\* The ID, name, type, local type and class of a record.
Metas ==
    { [ ID |-> <<"a", "b", "z">>, Name |-> <<"A", "B", " ", "C", "T", "A">>,
        Type |-> "CTA", LocalType |-> "", Class |-> "D" ],
      [ ID |-> <<" ">>, Name |-> <<"N", " ", "Z">>,
        Type |-> "D_OTHER", LocalType |-> "DZ", Class |-> "" ] }

MainMeta == CHOOSE m \in Metas : m.Type = "CTA"

\* Records of the sentinel types OTHER and D_OTHER with local types in and
\* out of the danger types, and of a danger type with a local type.
SentinelMetas ==
    { [ ID |-> <<>>, Name |-> <<"V", " ", "1">>, Type |-> t[1],
        LocalType |-> t[2], Class |-> "" ] :
        t \in { <<"D_OTHER", "GVS">>, <<"D_OTHER", "">>,
                <<"D_OTHER", "D_OTHER">>, <<"D_OTHER", "LASER">>,
                <<"OTHER", "GLIDER">>, <<"OTHER", "ILS">>,
                <<"OTHER", "MATZ">>, <<"D", "GVS">> } }

Rec(m, geometry) ==
    [ ID |-> m.ID, Name |-> m.Name, Type |-> m.Type,
      LocalType |-> m.LocalType, Class |-> m.Class, Geometry |-> geometry ]

Doc(airspace) == [valid |-> TRUE, a |-> [Airspace |-> airspace]]

\* A document yaml.Unmarshal rejects.
InvalidDoc == [valid |-> FALSE, a |-> [Airspace |-> <<>>]]

\* Documents yaml.Unmarshal rejects after it has filled in some records.
PartlyReadDocs ==
    { [valid |-> FALSE, a |-> [Airspace |-> <<Rec(m, <<g>>)>>]] :
        m \in Metas,
        g \in {CircleGeom,
               PlainGeom(<<LinePrim(<<PC, BadPos>>)>>, <<"S", "F", "C">>,
                         <<"F", "L", "5", "5">>)} }

\* A sequence of lines followed by a sequence that is an arc alone, in one
\* record and in two.
ArcAfterLinesDocs ==
    LET lines == PlainGeom(<<LinePrim(<<PC, PD, PB>>)>>, <<"S", "F", "C">>,
                           <<"F", "L", "5", "5">>)
        arc   == PlainGeom(<<ArcPrim("cw", Nm10, PA, PC)>>, <<"S", "F", "C">>,
                           <<"F", "L", "5", "5">>)
    IN  { Doc(<<Rec(MainMeta, <<lines, arc>>)>>),
          Doc(<<Rec(MainMeta, <<lines>>),
                Rec(CHOOSE m \in Metas : m # MainMeta, <<arc>>)>>) }

\* Names of records without an ID of their own: alike, and differing in a
\* blank, a hyphen or a digit only.
SynthNames == { <<"N">>, <<"N", " ", "1">>, <<"N", "-", "1">>, <<>> }

\* A record without geometry, of the given raw ID and name.
BareRec(id, name) ==
    [ ID |-> id, Name |-> name, Type |-> "D_OTHER", LocalType |-> "DZ",
      Class |-> "", Geometry |-> <<>> ]

\* Documents of two or three records whose raw IDs are blank.
BlankIDDocs ==
    { Doc(<<BareRec(id, n1), BareRec(<<>>, n2)>>) :
        id \in {<<>>, <<" ">>}, n1 \in SynthNames, n2 \in SynthNames }
      \cup { Doc(<<BareRec(<<>>, n), BareRec(<<" ", " ">>, n),
                   BareRec(<<>>, n)>>) : n \in SynthNames }
      \cup { Doc(<<BareRec(<<>>, <<"N", " ", "1">>), BareRec(<<>>, <<"N">>),
                   BareRec(<<>>, <<"N", "-", "1">>)>>) }

Docs ==
    {InvalidDoc, Doc(<<>>)}
      \cup BlankIDDocs
      \cup ArcAfterLinesDocs
      \cup { Doc(<<Rec(m, <<CircleGeom>>)>>) : m \in SentinelMetas }
      \cup PartlyReadDocs
      \cup { Doc(<<Rec(m, <<WideCircleGeom>>)>>) : m \in Metas }
      \cup { Doc(<<Rec(MainMeta, <<WideCircleGeom, CircleGeom>>)>>) }
      \cup { Doc(<<Rec(m, <<>>)>>) : m \in Metas }
      \cup { Doc(<<Rec(MainMeta, <<g>>)>>) : g \in Geometries }
      \cup { Doc(<<Rec(m, <<g>>)>>) : m \in Metas, g \in ShortGeoms }
      \cup { Doc(<<Rec(m, <<g>>)>>) : m \in Metas, g \in InheritGeoms }
      \cup { Doc(<<Rec(m, <<g, CircleGeom>>)>>) :
               m \in Metas, g \in InheritGeoms }
      \cup { Doc(<<Rec(MainMeta, <<CircleGeom>>), Rec(m, <<CircleGeom, g>>)>>) :
               m \in Metas, g \in InheritGeoms }
      \cup { Doc(<<Rec(MainMeta, <<CircleGeom>>), Rec(m, <<g, CircleGeom>>)>>) :
               m \in Metas, g \in InheritGeoms }
      \cup { Doc(<<Rec(m, <<g, CircleGeom>>)>>) :
               m \in Metas, g \in ShortGeoms }
      \cup { Doc(<<Rec(m, <<CircleGeom, g>>)>>) :
               m \in Metas, g \in ShortGeoms }
      \cup { Doc(<<Rec(MainMeta, <<g>>), Rec(m, <<CircleGeom>>)>>) :
               m \in Metas, g \in ShortGeoms }
      \cup { Doc(<<Rec(m, <<CircleGeom>>), Rec(MainMeta, <<g>>)>>) :
               m \in Metas, g \in ShortGeoms }

\* The positions asked about: the centre of the circle, a point north of it
\* inside the cap, a corner of the cap, a point far from both, three
\* points west of the centre: 17564 m, 17594 m and 17625 m from it as
\* projected, and a point inside the triangle PC, PD, PB, 29.7 km east of
\* the centre.
QueryPoints ==
    { parseLatLng(PA).point,
      <<-7200, 206470>>,
      <<-8730, 206314>>, <<-8731, 206314>>, <<-8732, 206314>>,
      <<-(2 * 3600 + 16 * 60 + 2), 57 * 3600 + 22 * 60>>,
      parseLatLng(PD).point,
      ZeroPoint }

----------------------------------------------------------------------------
(* The server (serve-airspace): load the document, then answer requests    *)

Init ==
    /\ call = NoRet
    /\ ret = NoRet
    /\ doc \in Docs
    /\ pc = "start"
    /\ decoded = [features |-> <<>>, err |-> NoErr]
    /\ features = <<>>
    /\ query = NoQuery
    /\ result = <<>>
    /\ inflight = NoneInFlight

\* main going on to serve whatever Load returned.
Main_servesAnyway ==
    /\ pc = "start"
    /\ decoded' = Decode(doc)
    /\ pc' = "serving"
    /\ features' = featuresByID(decoded'.features, Len(decoded'.features))
    /\ UNCHANGED <<call, ret, doc, query, result, inflight>>

\* main: Load the document and index the features by ID, or panic.
Main ==
    /\ pc = "start"
    /\ decoded' = Decode(doc)
    /\ IF decoded'.err # NoErr
       THEN /\ pc' = "panicked"
            /\ features' = features
       ELSE /\ pc' = "serving"
            /\ features' = featuresByID(decoded'.features,
                                        Len(decoded'.features))
    /\ UNCHANGED <<call, ret, doc, query, result, inflight>>

\* handleLatlonRequest for the position point.
handleLatlonRequest ==
    /\ pc = "serving"
    /\ \E point \in QueryPoints, order \in Orders(DOMAIN features) :
         /\ query' = point
         /\ result' = EnclosingVolumes(point, features, order)
    /\ UNCHANGED <<call, ret, doc, pc, decoded, features, inflight>>

Next ==
    \/ Main
    \/ handleLatlonRequest

Spec == Init /\ [][Next]_vars

----------------------------------------------------------------------------
(* The server with its handlers running side by side: net/http runs each   *)
(* handler in a goroutine of its own, so that a request is handled while   *)
(* others are.  A position request is split at its reads of the dataset:   *)
(* one step for each feature the range over the map visits.                *)

\* The documents loaded: one that does not parse, one with a malformed
\* position, an empty one, one with two features and one with two records
\* of the same ID.
ServeDocs ==
    { InvalidDoc,
      Doc(<<Rec(MainMeta,
                <<PlainGeom(<<LinePrim(<<PC, BadPos>>)>>, <<"S", "F", "C">>,
                            <<"F", "L", "5", "5">>)>>)>>),
      Doc(<<>>),
      Doc(<<Rec(MainMeta, <<CircleGeom>>),
            Rec(CHOOSE m \in Metas : m # MainMeta,
                <<WideCircleGeom, CircleGeom>>)>>),
      Doc(<<Rec(MainMeta, <<CircleGeom>>), Rec(MainMeta, <<WideCircleGeom>>)>>) }

\* The positions asked about: the centre of the circles and a point on the
\* wider one.
ServePoints == {parseLatLng(PA).point, <<-8731, 206314>>}

\* An ID no feature has.
NoSuchID == <<"n", "o", "n", "e">>

\* The response of http.NotFound.
NotFound == "404 page not found"

InitServe ==
    /\ call = NoRet
    /\ ret = NoRet
    /\ doc \in ServeDocs
    /\ pc = "start"
    /\ decoded = [features |-> <<>>, err |-> NoErr]
    /\ features = <<>>
    /\ query = NoQuery
    /\ result = <<>>
    /\ inflight = NoneInFlight

\* handle and the start of handleLatlonRequest: the position is parsed and
\* EnclosingVolumes begins its range over the map, in some order.
handle ==
    /\ pc = "serving"
    /\ \E s \in Slots, point \in ServePoints,
          order \in Orders(DOMAIN features) :
         /\ inflight[s] = Idle
         /\ inflight' = [inflight EXCEPT ![s] =
                           [ point |-> point, order |-> order, next |-> 1,
                             found |-> <<>> ]]
    /\ UNCHANGED <<call, ret, doc, pc, decoded, features, query, result>>

\* One turn of the loop of EnclosingVolumes over the features: the feature
\* is read from the map and its enclosing volumes are appended.
rangeFeatures ==
    /\ \E s \in Slots :
         /\ inflight[s] # Idle
         /\ inflight[s].next <= Len(inflight[s].order)
         /\ inflight' = [inflight EXCEPT ![s] =
              [ @ EXCEPT
                  !.found = @ \o enclosingOf(
                      inflight[s].point,
                      features[inflight[s].order[inflight[s].next]].Geometry,
                      1),
                  !.next = @ + 1 ]]
    /\ UNCHANGED <<call, ret, doc, pc, decoded, features, query, result>>

\* The end of handleLatlonRequest: the volumes found are encoded and sent.
encodeVolumes ==
    /\ \E s \in Slots :
         /\ inflight[s] # Idle
         /\ inflight[s].next > Len(inflight[s].order)
         /\ query' = inflight[s].point
         /\ result' = inflight[s].found
         /\ inflight' = [inflight EXCEPT ![s] = Idle]
    /\ UNCHANGED <<call, ret, doc, pc, decoded, features>>

\* handleNamedRequest for the feature id: one read of the map.
handleNamedRequest ==
    /\ pc = "serving"
    /\ \E id \in DOMAIN features \cup {NoSuchID} :
         result' = IF id \in DOMAIN features THEN features[id] ELSE NotFound
    /\ query' = NoQuery
    /\ UNCHANGED <<call, ret, doc, pc, decoded, features, inflight>>

\* handleRequestAll: the whole map encoded.
handleRequestAll ==
    /\ pc = "serving"
    /\ result' = features
    /\ query' = NoQuery
    /\ UNCHANGED <<call, ret, doc, pc, decoded, features, inflight>>

NextServe ==
    \/ Main
    \/ handle
    \/ rangeFeatures
    \/ encodeVolumes
    \/ handleNamedRequest
    \/ handleRequestAll

SpecServe == InitServe /\ [][NextServe]_vars

----------------------------------------------------------------------------
(* Properties of the decoders                                              *)

\* The character of str at each place is what the format asks for there.
WellFormedPos(str) ==
    /\ Len(str) = 16
    /\ str[8] = " "
    /\ \A i \in {1, 2, 3, 4, 5, 6, 9, 10, 11, 12, 13, 14, 15} : IsDigit(str[i])
    /\ str[7] \in {"N", "S"}
    /\ str[16] \in {"E", "W"}

\* The number written by the digits of str at places i..j.
Field(str, i, j) ==
    IF j = i + 1
    THEN 10 * DigitVal(str[i]) + DigitVal(str[j])
    ELSE 100 * DigitVal(str[i]) + 10 * DigitVal(str[i + 1]) + DigitVal(str[j])

\* C6: for every well-formed 16-character position string parseLatLng
\* returns, without error, the point (longitude, latitude) whose latitude
\* is DD*3600 + MM*60 + SS arc-seconds, negated for S, and whose longitude
\* is DDD*3600 + MM*60 + SS arc-seconds, negated for W.
ParseLatLngValue ==
    (ret.fn = "parseLatLng" /\ WellFormedPos(call.str)) =>
        LET s   == call.str
            lat == Field(s, 1, 2) * 3600 + Field(s, 3, 4) * 60 + Field(s, 5, 6)
            lon == Field(s, 9, 11) * 3600 + Field(s, 12, 13) * 60
                     + Field(s, 14, 15)
        IN  /\ ~ret.err
            /\ Lat(ret.point) = (IF s[7] = "S" THEN -lat ELSE lat)
            /\ Lon(ret.point) = (IF s[16] = "W" THEN -lon ELSE lon)

ParseLatLngValueWitness ==
    /\ ret.fn = "parseLatLng"
    /\ call.str = FormatPos(50, 22, 57, "N", 3, 37, 39, "W")
    /\ ~ret.err
    /\ ret.point = <<-(3 * 3600 + 37 * 60 + 39), 50 * 3600 + 22 * 60 + 57>>

\* C7: parseLatLng returns an error exactly when the length is not 16, or
\* the character at offset 7 is not a space, or a digit group is not an
\* unsigned integer, or a hemisphere letter is not valid for its axis; no
\* range is checked; on error the point returned is the zero point.
ParseLatLngErrors ==
    ret.fn = "parseLatLng" =>
        /\ ret.err <=> ~WellFormedPos(call.str)
        /\ ret.err => ret.point = ZeroPoint

ParseLatLngErrorsWitness ==
    /\ ret.fn = "parseLatLng"
    /\ call.str = [FormatPos(50, 22, 57, "N", 3, 37, 39, "W") EXCEPT ![7] = "X"]
    /\ ret.err
    /\ ret.point = ZeroPoint

\* The height the rules give for a string of the given kind.
ExpectedHeight(kind, num) ==
    CASE kind \in {"empty", "sfc"} -> 0
      [] kind = "fl"               -> 100 * num.val
      [] kind = "fl_ft"            -> 0
      [] OTHER                     -> num.val

\* C8: decodeHeight, after trimming and upper-casing: the empty string and
\* SFC give 0; a string with prefix FL gives 100 times the number after the
\* prefix (the FL rule comes before the FT rule); otherwise a trailing FT
\* and the blanks before it are removed and the number left is the result;
\* the letter case of the input does not matter.
DecodeHeightRules ==
    ret.fn = "decodeHeight" => ret.val = ExpectedHeight(call.kind, call.num)

DecodeHeightRulesWitness ==
    /\ ret.fn = "decodeHeight"
    /\ call.h = <<"f", "l", "1", "1", "5">>
    /\ ret.val = 115000

\* C9: for every input "<number> nm" decodeDistance returns the number
\* times 1852.
DecodeDistanceNm ==
    (ret.fn = "decodeDistance" /\ call.kind = "nm" /\ call.num.ok) =>
        ret.val = call.num.val * 1852

DecodeDistanceNmWitness ==
    /\ ret.fn = "decodeDistance"
    /\ call.d = <<"1", "0", " ", "n", "m">>
    /\ ret.val = 185200

\* C10: for every centre, radius, start, end and direction the output of
\* arcToPolygon is not empty and its last element is the 'to' point itself.
ArcEndsAtTo ==
    ret.fn = "arcToPolygon" =>
        /\ ret.poly # <<>>
        /\ ret.poly[Len(ret.poly)] = call.to

\* A clockwise sweep of nearly 360 degrees, from bearing 10 round to 5.
ArcEndsAtToWitness ==
    /\ ret.fn = "arcToPolygon"
    /\ call.centre = ArcCentre
    /\ call.radius = nautMilesToMeters(MaxRadiusNm * 10)
    /\ call.initialPoint = destinationPoint(call.centre, 10, call.radius)
    /\ call.to = destinationPoint(call.centre, 5, call.radius)
    /\ call.dir = 1
    /\ Len(ret.poly) >= 35
    /\ ret.poly[Len(ret.poly)] = call.to

\* C11: resolveAirspaceType returns the local type when the raw type is
\* exactly OTHER or D_OTHER, and the raw type itself for every other one.
ResolveTypeSentinels ==
    ret.fn = "resolveAirspaceType" =>
        /\ call.airspaceType \in {"OTHER", "D_OTHER"}
             => ret.val = call.localType
        /\ call.airspaceType \notin {"OTHER", "D_OTHER"}
             => ret.val = call.airspaceType

\* D_OTHER with local type GVS resolved to GVS.
ResolveTypeSentinelsWitness ==
    /\ ret.fn = "resolveAirspaceType"
    /\ call.airspaceType = "D_OTHER"
    /\ call.localType = "GVS"
    /\ ret.val = "GVS"

\* C12: resolveFeatureID returns the trimmed raw ID when that is not empty,
\* whatever the name and the position; otherwise the lower-cased name with
\* a hyphen for each space, then "-" and the 0-based position, so that a
\* different position gives a different ID.
ResolveIDTrimOrSynthesize ==
    ret.fn = "resolveFeatureID" =>
        /\ call.id.trimmed # <<>> => ret.val = call.id.trimmed
        /\ call.id.trimmed = <<>> =>
             /\ ret.val = call.name.slug \o <<"-">> \o call.index.text
             /\ \A x \in FeatureIndexes :
                  x # call.index =>
                    resolveFeatureID(call.id.raw, call.name.name, x.index)
                      # ret.val

\* resolveFeatureID("", "Drop Zone Alpha", 5) = "drop-zone-alpha-5".
ResolveIDTrimOrSynthesizeWitness ==
    /\ ret.fn = "resolveFeatureID"
    /\ call.id.raw = <<>>
    /\ call.index.index = 5
    /\ call.name.name = <<"D", "r", "o", "p", " ", "Z", "o", "n", "e", " ",
                          "A", "l", "p", "h", "a">>
    /\ ret.val = <<"d", "r", "o", "p", "-", "z", "o", "n", "e", "-",
                   "a", "l", "p", "h", "a", "-", "5">>

\* C14: ClearanceRequired is true exactly when the class is one of A to E
\* or the type is one of the twelve clearance types.
ClearanceExactly ==
    ret.fn = "ClearanceRequired" =>
        ret.val =
          ( \/ call.f.Class \in {"A", "B", "C", "D", "E"}
            \/ call.f.Type \in { "ATZ", "AWY", "CTA", "CTR", "MATZ", "P",
                                 "R", "RAT", "RMZ", "TMA", "TRA", "TMZ" } )

\* Class G in a CTR: the type alone requires the clearance.
ClearanceExactlyWitness ==
    /\ ret.fn = "ClearanceRequired"
    /\ call.f.Class = "G"
    /\ call.f.Type = "CTR"
    /\ ret.val = TRUE

\* C15: Danger is true exactly when the type is one of the nine danger
\* types, whatever the class.
DangerExactly ==
    ret.fn = "Danger" =>
        ret.val = ( call.f.Type \in { "AIAA", "D", "D_OTHER", "DZ", "GLIDER",
                                      "HIRTA", "LASER", "NOATZ", "UL" } )

\* A drop zone of class D is a danger; the class D alone would not be.
DangerExactlyWitness ==
    /\ ret.fn = "Danger"
    /\ call.f.Type = "DZ"
    /\ call.f.Class = "D"
    /\ ret.val = TRUE

----------------------------------------------------------------------------
(* Properties of the server                                                *)

\* The volumes of the features served, and the places they stand at.
VolumePlaces ==
    UNION { { <<id, j>> : j \in 1..Len(features[id].Geometry) } :
            id \in DOMAIN features }

AllVolumes == { features[pl[1]].Geometry[pl[2]] : pl \in VolumePlaces }

\* How often v stands in the features, and in a list of volumes.
InputCount(v) ==
    Cardinality({ pl \in VolumePlaces :
                    features[pl[1]].Geometry[pl[2]] = v })

Count(list, v) == Cardinality({ i \in 1..Len(list) : list[i] = v })

\* C1: the answer to a request holds each volume of the features that
\* encloses the position as often as the features hold it, and no volume
\* that does not enclose it; with nothing enclosing it is the empty list.
EnclosingVolumesExact ==
    (pc = "serving" /\ query # NoQuery) =>
        /\ \A i \in 1..Len(result) : result[i] \in AllVolumes
        /\ \A v \in AllVolumes :
             Count(result, v) =
               IF isEnclosedBy(query, v) THEN InputCount(v) ELSE 0
        /\ (\A v \in AllVolumes : ~isEnclosedBy(query, v)) => result = <<>>

\* A request at the centre of the 8 nm circle, answered with the circle
\* twice: the feature holds the same volume at two places.
EnclosingVolumesExactWitness ==
    /\ pc = "serving"
    /\ query = parseLatLng(PA).point
    /\ Len(result) = 2
    /\ result[1] = result[2]
    /\ result[1].Circle = [Radius |-> 148160, Centre |-> query]
    /\ result[1].Polygon = <<>>

\* C2: a Decode that fails returns no features, and the server then holds
\* none.
DecodeFailsWhole ==
    (pc # "start" /\ decoded.err # NoErr) =>
        /\ decoded.features = <<>>
        /\ features = <<>>
        /\ pc = "panicked"

\* A failed Decode of two records of which the first, alone, decodes.
DecodeFailsWholeWitness ==
    /\ pc = "panicked"
    /\ Len(doc.a.Airspace) = 2
    /\ decoded.err = "bad line"
    /\ LET first == Decode(Doc(<<doc.a.Airspace[1]>>))
       IN  first.err = NoErr /\ Len(first.features) = 1

\* The coordinate strings of the primitives present in a boundary: a
\* circle or an arc is present when it has a radius.
PrimCoords(b) ==
    (IF b.Circle.Radius # <<>> THEN {b.Circle.Centre} ELSE {})
      \cup { b.Line[i] : i \in 1..Len(b.Line) }
      \cup (IF b.Arc.Radius # <<>> THEN {b.Arc.To, b.Arc.Centre} ELSE {})

GeomCoords(g) == UNION { PrimCoords(g.Boundary[k]) : k \in 1..Len(g.Boundary) }

DocCoords(d) ==
    UNION { UNION { GeomCoords(d.a.Airspace[i].Geometry[j]) :
                    j \in 1..Len(d.a.Airspace[i].Geometry) } :
            i \in 1..Len(d.a.Airspace) }

\* C3: Decode fails whenever a coordinate string of a boundary primitive is
\* malformed, be it a circle's centre, a point of a line, an arc's 'to' or
\* an arc's centre.
MalformedCoordinateFails ==
    (pc # "start" /\ doc.valid
       /\ \E c \in DocCoords(doc) : ~WellFormedPos(c))
        => decoded.err # NoErr

MalformedHeights == { h.text : h \in { t \in HeightTexts : ~t.ok } }

\* The index of the last circle present in a boundary, or 0.
LastCircle(boundary) ==
    IF \E k \in 1..Len(boundary) : boundary[k].Circle.Radius # <<>>
    THEN CHOOSE k \in 1..Len(boundary) :
           /\ boundary[k].Circle.Radius # <<>>
           /\ \A m \in (k + 1)..Len(boundary) :
                boundary[m].Circle.Radius = <<>>
    ELSE 0

\* C4: with every coordinate well-formed, Decode of a document that parses
\* succeeds and returns every record with every sequence; a malformed
\* height is 0, a circle of malformed radius has radius 0, and an arc of
\* malformed radius is drawn with radius 0, at its centre.
MalformedNumbersAreZero ==
    (pc # "start" /\ doc.valid
       /\ \A c \in DocCoords(doc) : WellFormedPos(c)) =>
        /\ decoded.err = NoErr
        /\ pc = "serving"
        /\ Len(decoded.features) = Len(doc.a.Airspace)
        /\ \A i \in 1..Len(doc.a.Airspace) :
             /\ Len(decoded.features[i].Geometry)
                  = Len(doc.a.Airspace[i].Geometry)
             /\ \A j \in 1..Len(doc.a.Airspace[i].Geometry) :
                  LET g == doc.a.Airspace[i].Geometry[j]
                      v == decoded.features[i].Geometry[j]
                      k == LastCircle(g.Boundary)
                  IN  /\ \A h \in HeightTexts :
                           /\ g.Lower = h.text => v.Lower = h.val
                           /\ g.Upper = h.text => v.Upper = h.val
                      /\ (k # 0 /\ g.Boundary[k].Circle.Radius = BadNm)
                           => v.Circle.Radius = 0
                      /\ (k # 0 /\ g.Boundary[k].Circle.Radius = Nm8)
                           => v.Circle.Radius = 148160
                      /\ g.Boundary = <<ArcPrim("cw", BadNm, PA, PC)>> =>
                           /\ Len(v.Polygon) >= 2
                           /\ \A n \in 1..(Len(v.Polygon) - 1) :
                                v.Polygon[n] = <<-8162, 206314>>
                           /\ v.Polygon[Len(v.Polygon)] = <<-7115, 206513>>

\* A served volume whose lower height and circle radius are both
\* malformed: both are 0 and the upper height is read.
MalformedNumbersAreZeroWitness ==
    /\ pc = "serving"
    /\ Len(doc.a.Airspace) = 1
    /\ Len(doc.a.Airspace[1].Geometry) = 1
    /\ doc.a.Airspace[1].Geometry[1].Boundary = <<CirclePrim(BadNm, PA)>>
    /\ doc.a.Airspace[1].Geometry[1].Lower = <<"1", "2", "X", " ", "f", "t">>
    /\ doc.a.Airspace[1].Geometry[1].Upper = <<"F", "L", "5", "5">>
    /\ decoded.features[1].Geometry[1].Lower = 0
    /\ decoded.features[1].Geometry[1].Upper = 55000
    /\ decoded.features[1].Geometry[1].Circle.Radius = 0

\* C5: every volume of a successful Decode has exactly one shape: a circle
\* of non-zero radius or a non-empty polygon, not both and not neither.
ExactlyOneShape ==
    (pc = "serving") =>
        \A i \in 1..Len(decoded.features) :
          \A j \in 1..Len(decoded.features[i].Geometry) :
            LET v == decoded.features[i].Geometry[j]
            IN  (v.Circle.Radius # 0) # (Len(v.Polygon) > 0)

\* C13: a volume has the ID, the name and the class of its sequence where
\* the sequence gives them, and those of its feature (the ID as resolved)
\* where the sequence leaves them blank, each of the three on its own.
VolumeInherits ==
    (pc = "serving") =>
        \A i \in 1..Len(decoded.features) :
          \A j \in 1..Len(decoded.features[i].Geometry) :
            LET g == doc.a.Airspace[i].Geometry[j]
                f == decoded.features[i]
                v == f.Geometry[j]
            IN  /\ v.ID = IF g.ID # <<>> THEN g.ID ELSE f.ID
                /\ v.Name = IF g.Name # <<>> THEN g.Name ELSE f.Name
                /\ v.Class = IF g.Class # "" THEN g.Class ELSE f.Class

\* The second record, without an ID of its own, holds a sequence that gives
\* a name only: the volume has that name, the ID synthesized for the record
\* and the (empty) class of the record.
VolumeInheritsWitness ==
    /\ pc = "serving"
    /\ Len(decoded.features) = 2
    /\ doc.a.Airspace[2].ID = <<" ">>
    /\ Len(doc.a.Airspace[2].Geometry) = 2
    /\ doc.a.Airspace[2].Geometry[2].ID = <<>>
    /\ doc.a.Airspace[2].Geometry[2].Name = <<"X", " ", "1">>
    /\ doc.a.Airspace[2].Geometry[2].Class = ""
    /\ decoded.features[2].Geometry[2].ID = <<"n", "-", "z", "-", "1">>
    /\ decoded.features[2].Geometry[2].Name = <<"X", " ", "1">>
    /\ decoded.features[2].Geometry[2].Class = ""
    /\ decoded.features[2].Geometry[1].Name = <<"N", " ", "Z">>

\* C16: Decode of an empty document returns an empty feature list and no
\* error; Decode of a document that does not parse returns the unmarshal
\* error and no features.
DecodeEmptyAndInvalid ==
    (pc # "start") =>
        /\ doc = Doc(<<>>) =>
             /\ decoded = [features |-> <<>>, err |-> NoErr]
             /\ pc = "serving"
        /\ ~doc.valid =>
             /\ decoded = [features |-> <<>>,
                           err |-> "failed to unmarshal YAML"]
             /\ pc = "panicked"

\* A document rejected after one well-formed record was read from it.
DecodeEmptyAndInvalidWitness ==
    /\ pc = "panicked"
    /\ ~doc.valid
    /\ Len(doc.a.Airspace) = 1
    /\ normalise(doc.a).err = NoErr
    /\ decoded.err = "failed to unmarshal YAML"
    /\ decoded.features = <<>>

\* The height a height string of the documents denotes, in tenths of a
\* foot.
HeightOf(text) == (CHOOSE h \in HeightTexts : h.text = text).val

\* C17: a successful Decode returns one feature for each record, in the
\* order of the records, and in each feature one volume for each sequence,
\* in the order of the sequences, with the sequence's number and its
\* decoded lower and upper heights.
DecodePreservesStructure ==
    (pc # "start" /\ decoded.err = NoErr) =>
        /\ Len(decoded.features) = Len(doc.a.Airspace)
        /\ \A i \in 1..Len(doc.a.Airspace) :
             LET r == doc.a.Airspace[i]
                 f == decoded.features[i]
             IN  /\ f.Name = r.Name
                 /\ f.Class = r.Class
                 /\ Len(f.Geometry) = Len(r.Geometry)
                 /\ \A j \in 1..Len(r.Geometry) :
                      /\ f.Geometry[j].Sequence = r.Geometry[j].Seqno
                      /\ f.Geometry[j].Lower = HeightOf(r.Geometry[j].Lower)
                      /\ f.Geometry[j].Upper = HeightOf(r.Geometry[j].Upper)

\* Two records, the second with sequence 2 (from 1500 ft) declared before
\* sequence 1 (from the surface): features and volumes keep that order.
DecodePreservesStructureWitness ==
    /\ pc = "serving"
    /\ Len(decoded.features) = 2
    /\ decoded.features[1].Name = <<"A", "B", " ", "C", "T", "A">>
    /\ decoded.features[2].Name = <<"N", " ", "Z">>
    /\ Len(decoded.features[2].Geometry) = 2
    /\ decoded.features[2].Geometry[1].Sequence = 2
    /\ decoded.features[2].Geometry[1].Lower = 15000
    /\ decoded.features[2].Geometry[1].Upper = 55000
    /\ decoded.features[2].Geometry[2].Sequence = 1
    /\ decoded.features[2].Geometry[2].Lower = 0

\* The features with the bounds of every volume replaced.
WithBounds(feats, lower, upper) ==
    [ id \in DOMAIN feats |->
        [ feats[id] EXCEPT !.Geometry =
            [ j \in 1..Len(feats[id].Geometry) |->
                [ feats[id].Geometry[j] EXCEPT !.Lower = lower,
                                               !.Upper = upper ] ] ] ]

\* Lower and upper bounds in tenths of a foot, some with the lower above
\* the upper.
AltitudeBounds ==
    { <<0, 0>>, <<0, 55000>>, <<55000, 15000>>, <<-10000, 999990>>,
      <<1, 0>> }

\* C18: the answer does not depend on altitude: with the bounds of every
\* volume replaced by any others, the same volumes at the same places are
\* returned for the position, the lower bound above the upper one included.
AltitudeIndependent ==
    (pc = "serving" /\ query # NoQuery) =>
        \A b \in AltitudeBounds :
          \A order \in Orders(DOMAIN features) :
            LET here  == EnclosingVolumes(query, features, order)
                there == EnclosingVolumes(query,
                                          WithBounds(features, b[1], b[2]),
                                          order)
            IN  /\ Len(there) = Len(here)
                /\ Len(there) = Len(result)
                /\ \A k \in 1..Len(here) :
                     there[k] = [here[k] EXCEPT !.Lower = b[1],
                                                !.Upper = b[2]]

\* A volume from FL55 down to the surface returned for the centre of its
\* circle.
AltitudeIndependentWitness ==
    /\ pc = "serving"
    /\ query = parseLatLng(PA).point
    /\ Len(result) = 1
    /\ result[1].Lower = 55000
    /\ result[1].Upper = 0
    /\ result[1].Circle.Radius = 148160

\* C19: a volume with a circle of radius R > 0 and no polygon encloses a
\* position exactly when the distance of the projected position from the
\* projected centre is at most R: at exactly R it does.  R is a whole
\* number of metres here, as are the projected coordinates.
CircleBoundaryInclusive ==
    (pc = "serving" /\ query # NoQuery) =>
        \A v \in AllVolumes :
          (v.Circle.Radius > 0 /\ v.Circle.Radius % 10 = 0
             /\ v.Polygon = <<>>) =>
            LET R  == v.Circle.Radius \div 10
                dx == Abs(ToMercator(query)[1] - ToMercator(v.Circle.Centre)[1])
                dy == Abs(ToMercator(query)[2] - ToMercator(v.Circle.Centre)[2])
            IN  (Count(result, v) > 0)
                  = (dx <= R /\ dy <= R /\ dx * dx + dy * dy <= R * R)

\* A position 17594 m due west of the centre of the 9.5 nm circle, as
\* projected, answered with that circle.
CircleBoundaryInclusiveWitness ==
    /\ pc = "serving"
    /\ query = <<-8731, 206314>>
    /\ ToMercator(parseLatLng(PA).point)[1] - ToMercator(query)[1] = 17594
    /\ ToMercator(parseLatLng(PA).point)[2] = ToMercator(query)[2]
    /\ Len(result) = 1
    /\ result[1].Circle = [Radius |-> 175940, Centre |-> parseLatLng(PA).point]
    /\ result[1].Polygon = <<>>

\* C20: EnclosingVolumes only reads.  While the server answers queries, no
\* step changes the map of features or any volume in it (flags, bounds,
\* circle, polygon points and their order), and a query for the position of
\* the query before it returns the same set of volumes, as many of them.
EnclosingVolumesPureRead ==
    [][pc = "serving" =>
         /\ features' = features
         /\ decoded' = decoded
         /\ (query # NoQuery /\ query' = query) =>
              /\ Len(result') = Len(result)
              /\ { result'[i] : i \in 1..Len(result') }
                   = { result[i] : i \in 1..Len(result) }]_vars

\* A query answered with volumes of two features, the map still what main
\* made of the decoded document.
EnclosingVolumesPureReadWitness ==
    /\ pc = "serving"
    /\ query = parseLatLng(PA).point
    /\ Len(result) = 2
    /\ result[1].ID # result[2].ID
    /\ Cardinality(DOMAIN features) = 2
    /\ features = featuresByID(Decode(doc).features, Len(Decode(doc).features))

\* C21: at most one shape test decides a volume: whether a volume with a
\* circle of non-zero radius is in the answer is the result of the circle
\* test alone, whatever its polygon.
CircleTestAloneDecides ==
    (pc = "serving" /\ query # NoQuery) =>
        \A v \in AllVolumes :
          (v.Circle.Radius # 0) =>
            (Count(result, v) > 0)
              = distanceWithin(ToMercator(query), ToMercator(v.Circle.Centre),
                               v.Circle.Radius)

\* C22: for every start, end and direction the stepping loop of
\* arcToPolygon ends: the bearings after normalisation are those of the
\* start and the end up to whole turns, the sweep from the one to the other
\* in the declared direction is in [0, 360), at most 36 points come before
\* the 'to' point, and these are the points every 10 degrees from the start
\* bearing in the declared direction, each before the end bearing and none
\* before the end left out.
ArcSweepDeclared ==
    ret.fn = "arcToPolygon" =>
        LET bi == Bearing(call.centre, call.initialPoint)
            bf == Bearing(call.centre, call.to)
            n  == arcAngles(call.centre, call.initialPoint, call.to, call.dir)
            S  == call.dir * (n.final - n.initial)
        IN  /\ (n.initial - bi) % 360 = 0
            /\ (n.final - bf) % 360 = 0
            /\ 0 <= S
            /\ S < 360
            /\ Len(ret.poly) - 1 <= 36
            /\ \A k \in 1..(Len(ret.poly) - 1) :
                 /\ 10 * (k - 1) < S
                 /\ ret.poly[k]
                      = destinationPoint(call.centre,
                                         bi + call.dir * 10 * (k - 1),
                                         call.radius)
            /\ \A k \in 1..36 :
                 10 * (k - 1) < (call.dir * (bf - bi)) % 360
                   => k <= Len(ret.poly) - 1

\* A counter-clockwise sweep from bearing 5 round to 10: the start bearing
\* is raised by a turn and the sweep is one of nearly 360 degrees.
ArcSweepDeclaredWitness ==
    /\ ret.fn = "arcToPolygon"
    /\ call.centre = ArcCentre
    /\ call.radius = nautMilesToMeters(MaxRadiusNm * 10)
    /\ call.initialPoint = destinationPoint(call.centre, 5, call.radius)
    /\ call.to = destinationPoint(call.centre, 10, call.radius)
    /\ call.dir = -1
    /\ arcAngles(call.centre, call.initialPoint, call.to, call.dir).initial
         > 360
    /\ Len(ret.poly) - 1 >= 35
    /\ Len(ret.poly) - 1 <= 36

\* The sweep from the bearing of the start to that of the end in the
\* direction of the call, in whole degrees of [0, 360).
SweepOf(c) ==
    (c.dir * (Bearing(c.centre, c.to) - Bearing(c.centre, c.initialPoint)))
      % 360

\* C23: for a sweep of S degrees arcToPolygon returns ceil(S/10) + 1
\* points: one at the start bearing when S > 0, one every 10 degrees
\* further on that is before the end bearing, then the 'to' point; an arc
\* of 90 degrees has 10 points, and with S = 0 the 'to' point is the only
\* one.
ArcPointCount ==
    ret.fn = "arcToPolygon" =>
        /\ Len(ret.poly) = (SweepOf(call) + 9) \div 10 + 1
        /\ ret.poly[Len(ret.poly)] = call.to
        /\ SweepOf(call) > 0 =>
             ret.poly[1]
               = destinationPoint(call.centre,
                                  Bearing(call.centre, call.initialPoint),
                                  call.radius)
        /\ SweepOf(call) = 90 => Len(ret.poly) = 10
        /\ SweepOf(call) = 0 => ret.poly = <<call.to>>

\* A clockwise quarter turn from north to east: 9 points on the circle and
\* the 'to' point.
ArcPointCountWitness ==
    /\ ret.fn = "arcToPolygon"
    /\ call.centre = ArcCentre
    /\ call.radius = nautMilesToMeters(MaxRadiusNm * 10)
    /\ call.initialPoint = destinationPoint(call.centre, 0, call.radius)
    /\ call.to = destinationPoint(call.centre, 90, call.radius)
    /\ call.dir = 1
    /\ SweepOf(call) = 90
    /\ Len(ret.poly) = 10
    /\ ret.poly[1] = call.initialPoint
    /\ ret.poly[10] = call.to

\* The last line point declared in the first k primitives of a boundary,
\* the zero point when there is none.
RECURSIVE LastLinePoint(_, _)
LastLinePoint(boundary, k) ==
    IF k = 0 THEN ZeroPoint
    ELSE IF boundary[k].Line # <<>>
    THEN parseLatLng(boundary[k].Line[Len(boundary[k].Line)]).point
    ELSE LastLinePoint(boundary, k - 1)

\* The points of a line as decoded, in the order listed.
LinePoints(line) == [i \in 1..Len(line) |-> parseLatLng(line[i]).point]

\* The arc of the primitive b rasterized from start; nothing without an arc.
ArcOf(b, start) ==
    IF b.Arc.Radius = <<>> THEN <<>>
    ELSE arcToPolygon(parseLatLng(b.Arc.Centre).point,
                      decodeDistance(b.Arc.Radius), start,
                      parseLatLng(b.Arc.To).point,
                      IF b.Arc.Dir = "ccw" THEN -1 ELSE 1)

\* The lines and arcs of the first k primitives, one after the other.
RECURSIVE RingOf(_, _)
RingOf(boundary, k) ==
    IF k = 0 THEN <<>>
    ELSE RingOf(boundary, k - 1) \o LinePoints(boundary[k].Line)
           \o ArcOf(boundary[k], LastLinePoint(boundary, k))

\* C24: the polygon of a sequence made of lines and arcs is, in the order
\* declared, the points of each line and the output of arcToPolygon for
\* each arc, started at the last line point decoded before it; the circle
\* stays zero; the first sequence of the ABERDEEN CTA has 19 points.
PolygonIsConcatenation ==
    (pc = "serving") =>
        \A i \in 1..Len(decoded.features) :
          \A j \in 1..Len(decoded.features[i].Geometry) :
            LET b == doc.a.Airspace[i].Geometry[j].Boundary
                v == decoded.features[i].Geometry[j]
            IN  (\A k \in 1..Len(b) : b[k].Circle.Radius = <<>>) =>
                  /\ v.Polygon = RingOf(b, Len(b))
                  /\ v.Circle = ZeroCircle
                  /\ b = CapBoundary => Len(v.Polygon) = 19

\* The first sequence of the ABERDEEN CTA decoded: its three corners, then
\* 15 points of the arc and the end of the arc.
PolygonIsConcatenationWitness ==
    /\ pc = "serving"
    /\ Len(doc.a.Airspace) = 1
    /\ Len(doc.a.Airspace[1].Geometry) = 1
    /\ doc.a.Airspace[1].Geometry[1].Boundary = CapBoundary
    /\ decoded.features[1].Geometry[1].Circle = ZeroCircle
    /\ Len(decoded.features[1].Geometry[1].Polygon) = 19
    /\ SubSeq(decoded.features[1].Geometry[1].Polygon, 1, 3)
         = <<parseLatLng(PC).point, parseLatLng(PD).point,
             parseLatLng(PB).point>>
    /\ SubSeq(decoded.features[1].Geometry[1].Polygon, 4, 19)
         = arcToPolygon(parseLatLng(PA).point, decodeDistance(Nm10),
                        parseLatLng(PB).point, parseLatLng(PC).point, 1)

\* C25: the dataset is written only by main, before any request is taken,
\* and only when the load succeeded: until then and after a failed load
\* nothing is in flight, nothing has been answered and the dataset is
\* empty.  While requests are served the dataset is the whole of what was
\* loaded; every step that changes it is main's; each request in flight
\* has found so far what that dataset gives for the features it has
\* visited, whatever the other requests did meanwhile, and each answer to
\* a position request is what the dataset gives for the position.
DatasetWrittenAtStartupOnly ==
    /\ [](/\ (pc # "serving") =>
               /\ inflight = NoneInFlight
               /\ query = NoQuery
               /\ result = <<>>
               /\ features = <<>>
          /\ (pc = "panicked") <=> (Decode(doc).err # NoErr /\ pc # "start")
          /\ (pc = "serving") =>
               /\ decoded = Decode(doc)
               /\ decoded.err = NoErr
               /\ features = featuresByID(decoded.features,
                                          Len(decoded.features))
          /\ \A s \in Slots :
               (inflight[s] # Idle) =>
                 inflight[s].found
                   = EnclosingVolumes(inflight[s].point, features,
                                      SubSeq(inflight[s].order, 1,
                                             inflight[s].next - 1))
          /\ (query # NoQuery) =>
               \E order \in Orders(DOMAIN features) :
                 result = EnclosingVolumes(query, features, order))
    /\ [][(features' # features) =>
            /\ pc = "start"
            /\ pc' = "serving"
            /\ inflight = NoneInFlight]_vars

\* Two position requests under way at once over a dataset of two features,
\* one that has visited one feature and one that has visited both, after
\* another was answered.
DatasetWrittenAtStartupOnlyWitness ==
    /\ pc = "serving"
    /\ Cardinality(DOMAIN features) = 2
    /\ inflight[1] # Idle
    /\ inflight[2] # Idle
    /\ inflight[1].next = 2
    /\ inflight[2].next = 3
    /\ inflight[1].point # inflight[2].point
    /\ inflight[1].order # inflight[2].order
    /\ inflight[2].found # <<>>
    /\ query # NoQuery

\* The position an arc of the k-th primitive starts from: the last point
\* of the last line among the first k primitives, the zero point when none
\* of them has a line.
StartOfArc(boundary, k) ==
    LET withLine == { m \in 1..k : boundary[m].Line # <<>> }
        last     == CHOOSE m \in withLine : \A n \in withLine : n <= m
    IN  IF withLine = {} THEN ZeroPoint
        ELSE parseLatLng(boundary[last].Line[Len(boundary[last].Line)]).point

\* C26: in every sequence, whatever came before it, each arc is rasterized
\* from the last line point of that sequence declared before the arc, and
\* from the zero point when there is none: circles and arcs do not move the
\* current position, and it is not carried over from sequence to sequence.
\* The points of the arc of the k-th primitive are the last of the polygon
\* as it is after that primitive.
CurrentPosByLinesOnly ==
    (pc = "serving") =>
        \A i \in 1..Len(decoded.features) :
          \A j \in 1..Len(decoded.features[i].Geometry) :
            LET b == doc.a.Airspace[i].Geometry[j].Boundary
                v == decoded.features[i].Geometry[j]
            IN  \A k \in 1..Len(b) :
                  (b[k].Arc.Radius # <<>>) =>
                    LET end == Len(RingOf(b, k))
                        arc == ArcOf(b[k], StartOfArc(b, k))
                    IN  /\ end <= Len(v.Polygon)
                        /\ Len(arc) <= end
                        /\ SubSeq(v.Polygon, end - Len(arc) + 1, end) = arc

\* Two arcs and no line: the second arc starts from the zero point, as the
\* first does, and not from the end of the first.
CurrentPosByLinesOnlyWitness ==
    /\ pc = "serving"
    /\ Len(doc.a.Airspace) = 1
    /\ Len(doc.a.Airspace[1].Geometry) = 1
    /\ doc.a.Airspace[1].Geometry[1].Boundary
         = <<ArcPrim("cw", Nm10, PA, PC), ArcPrim("ccw", Nm10, PA, PB)>>
    /\ decoded.features[1].Geometry[1].Polygon
         = arcToPolygon(parseLatLng(PA).point, decodeDistance(Nm10),
                        ZeroPoint, parseLatLng(PC).point, 1)
             \o arcToPolygon(parseLatLng(PA).point, decodeDistance(Nm10),
                             ZeroPoint, parseLatLng(PB).point, -1)
    /\ arcToPolygon(parseLatLng(PA).point, decodeDistance(Nm10),
                    ZeroPoint, parseLatLng(PB).point, -1)
         # arcToPolygon(parseLatLng(PA).point, decodeDistance(Nm10),
                        parseLatLng(PC).point, parseLatLng(PB).point, -1)

\* C27: every volume of a decoded feature has the type of the feature and
\* the flags ClearanceRequired and Danger of the feature, so that the
\* volumes of one feature all carry the same flags; the class of the record
\* is that of the feature, and a class of the sequence's own is the class
\* of the volume without a part in its ClearanceRequired.
VolumeFlagsFromFeature ==
    (pc = "serving") =>
        \A i \in 1..Len(decoded.features) :
          LET f == decoded.features[i]
          IN  /\ f.Class = doc.a.Airspace[i].Class
              /\ \A j \in 1..Len(f.Geometry) :
                   /\ f.Geometry[j].Type = f.Type
                   /\ f.Geometry[j].ClearanceRequired = ClearanceRequired(f)
                   /\ f.Geometry[j].Danger = Danger(f)
                   /\ doc.a.Airspace[i].Geometry[j].Class # "" =>
                        f.Geometry[j].Class
                          = doc.a.Airspace[i].Geometry[j].Class
              /\ \A j, k \in 1..Len(f.Geometry) :
                   /\ f.Geometry[j].Type = f.Geometry[k].Type
                   /\ f.Geometry[j].ClearanceRequired
                        = f.Geometry[k].ClearanceRequired
                   /\ f.Geometry[j].Danger = f.Geometry[k].Danger

\* A drop zone without a class whose first sequence declares class A: the
\* volume has class A and needs no clearance, like the volume after it.
VolumeFlagsFromFeatureWitness ==
    /\ pc = "serving"
    /\ Len(decoded.features) = 1
    /\ Len(decoded.features[1].Geometry) = 2
    /\ decoded.features[1].Class = ""
    /\ decoded.features[1].Type = "DZ"
    /\ doc.a.Airspace[1].Geometry[1].Class = "A"
    /\ decoded.features[1].Geometry[1].Class = "A"
    /\ decoded.features[1].Geometry[2].Class = ""
    /\ \A j \in 1..2 :
         /\ ~decoded.features[1].Geometry[j].ClearanceRequired
         /\ decoded.features[1].Geometry[j].Danger
         /\ decoded.features[1].Geometry[j].Type = "DZ"

\* C28: the flags of a volume follow the resolved type: for a record of
\* type OTHER or D_OTHER the volume has the local type for its type, is a
\* danger exactly when the local type is one of the danger types and needs
\* a clearance exactly when the class or the local type asks for one; for
\* every other record the type written decides, whatever the local type.
FlagsFromResolvedType ==
    (pc = "serving") =>
        \A i \in 1..Len(decoded.features) :
          \A j \in 1..Len(decoded.features[i].Geometry) :
            LET r == doc.a.Airspace[i]
                v == decoded.features[i].Geometry[j]
                t == IF r.Type \in {"OTHER", "D_OTHER"} THEN r.LocalType
                     ELSE r.Type
            IN  /\ v.Type = t
                /\ v.Danger = ( t \in { "AIAA", "D", "D_OTHER", "DZ",
                                        "GLIDER", "HIRTA", "LASER", "NOATZ",
                                        "UL" } )
                /\ v.ClearanceRequired
                     = ( \/ r.Class \in {"A", "B", "C", "D", "E"}
                         \/ t \in { "ATZ", "AWY", "CTA", "CTR", "MATZ", "P",
                                    "R", "RAT", "RMZ", "TMA", "TRA", "TMZ" } )

\* A D_OTHER record with local type GVS: its volume is of type GVS and is
\* not a danger.
FlagsFromResolvedTypeWitness ==
    /\ pc = "serving"
    /\ Len(doc.a.Airspace) = 1
    /\ doc.a.Airspace[1].Type = "D_OTHER"
    /\ doc.a.Airspace[1].LocalType = "GVS"
    /\ Len(decoded.features[1].Geometry) = 1
    /\ decoded.features[1].Geometry[1].Type = "GVS"
    /\ ~decoded.features[1].Geometry[1].Danger
    /\ ~decoded.features[1].Geometry[1].ClearanceRequired

\* The part of an ID after its last hyphen; the whole of it without one.
RECURSIVE AfterLastHyphen(_)
AfterLastHyphen(id) ==
    IF id = <<>> \/ id[Len(id)] = "-" THEN <<>>
    ELSE Append(AfterLastHyphen(SubSeq(id, 1, Len(id) - 1)), id[Len(id)])

\* C29: any two features of a decoded document whose records have a blank
\* raw ID have different IDs, whatever their names: the parts after the
\* last hyphen are the positions of the two records, which differ.
SynthesizedIDsDiffer ==
    (pc = "serving") =>
        \A i, k \in 1..Len(decoded.features) :
          ( /\ i # k
            /\ TrimSpace(doc.a.Airspace[i].ID) = <<>>
            /\ TrimSpace(doc.a.Airspace[k].ID) = <<>> ) =>
            /\ decoded.features[i].ID # decoded.features[k].ID
            /\ AfterLastHyphen(decoded.features[i].ID) = FormatInt(i - 1)
            /\ AfterLastHyphen(decoded.features[k].ID) = FormatInt(k - 1)
            /\ AfterLastHyphen(decoded.features[i].ID)
                 # AfterLastHyphen(decoded.features[k].ID)

\* Three records of the same name, one with blanks for its ID: three IDs,
\* and three features in the dataset.
SynthesizedIDsDifferWitness ==
    /\ pc = "serving"
    /\ Len(doc.a.Airspace) = 3
    /\ \A i \in 1..3 : doc.a.Airspace[i].Name = <<"N", "-", "1">>
    /\ doc.a.Airspace[2].ID = <<" ", " ">>
    /\ decoded.features[1].ID = <<"n", "-", "1", "-", "0">>
    /\ decoded.features[2].ID = <<"n", "-", "1", "-", "1">>
    /\ decoded.features[3].ID = <<"n", "-", "1", "-", "2">>
    /\ Cardinality(DOMAIN features) = 3

\* C30: a volume with a circle of radius 0 and no polygon is in no answer,
\* whatever the position asked about, the centre of its circle included.
ShapelessVolumeNeverReturned ==
    (pc = "serving" /\ query # NoQuery) =>
        \A v \in AllVolumes :
          (v.Circle.Radius = 0 /\ v.Polygon = <<>>) =>
            /\ Count(result, v) = 0
            /\ \A order \in Orders(DOMAIN features) :
                 Count(EnclosingVolumes(v.Circle.Centre, features, order), v)
                   = 0

\* A circle of radius "X nm" around PA, decoded with radius 0, asked about
\* its own centre: the answer is empty.
ShapelessVolumeNeverReturnedWitness ==
    /\ pc = "serving"
    /\ query = parseLatLng(PA).point
    /\ Len(doc.a.Airspace) = 1
    /\ Len(doc.a.Airspace[1].Geometry) = 1
    /\ doc.a.Airspace[1].Geometry[1].Boundary = <<CirclePrim(BadNm, PA)>>
    /\ decoded.features[1].Geometry[1].Circle
         = [Radius |-> 0, Centre |-> query]
    /\ decoded.features[1].Geometry[1].Polygon = <<>>
    /\ result = <<>>

====
